---- MODULE Spec2Model ----
(***************************************************************************)
(* Model of the image store of the AI image generator (src/js/state.js):   *)
(* the State class with its in-memory list, its listener set, its          *)
(* debounced localStorage persistence and the callers that read it.        *)
(***************************************************************************)
EXTENDS Integers, Sequences, FiniteSets, TLC

(***************************************************************************)
(* Bounds of the model and program constants.                              *)
(***************************************************************************)
\* number of image objects that are ever created (loaded or added)
MaxObjects == 2

\* src/js/state.js:6
SAVE_DEBOUNCE_MS == 300

\* granularity of the passage of time: half the debounce window
TickMs == SAVE_DEBOUNCE_MS \div 2

\* the value of State._saveTimeout when no write is scheduled (null)
NoTimeout == 0

(***************************************************************************)
(* JavaScript values.  Objects that the store holds live on a heap and are *)
(* reached through references, so that two arrays can share a record.      *)
(***************************************************************************)
JUndefined == [k |-> "undefined"]
JNull == [k |-> "null"]
JNum(n) == [k |-> "num", n |-> n]
JStr(s) == [k |-> "str", s |-> s]
JArr(es) == [k |-> "arr", es |-> es]
JObj(f) == [k |-> "obj", f |-> f]
JRef(r) == [k |-> "ref", r |-> r]

EmptyArray == JArr(<<>>)
EmptyObject == [x \in {} |-> JNull]

IsArray(v) == v.k = "arr"

\* property order of an image record (ImageData typedef)
FieldOrder == <<"id", "url", "prompt", "createdAt">>

\* obj.name for an object given by its properties
Field(f, name) == IF name \in DOMAIN f THEN f[name] ELSE JUndefined

\* v with every reference replaced by the object it points to
Deref(v, h) ==
    IF v.k = "ref" THEN JObj(h[v.r])
    ELSE IF v.k = "arr"
         THEN JArr([i \in 1..Len(v.es) |->
                      IF v.es[i].k = "ref" THEN JObj(h[v.es[i].r]) ELSE v.es[i]])
         ELSE v

(***************************************************************************)
(* JSON text, as a sequence of tokens.                                     *)
(***************************************************************************)
Tok(t) == [t |-> t, s |-> "", n |-> 0]
TokStr(s) == [t |-> "str", s |-> s, n |-> 0]
TokNum(n) == [t |-> "num", s |-> "", n |-> n]

RECURSIVE JoinComma(_)
JoinComma(ss) ==
    IF ss = <<>> THEN <<>>
    ELSE IF Len(ss) = 1 THEN ss[1]
    ELSE ss[1] \o <<Tok(",")>> \o JoinComma(Tail(ss))

\* JSON.stringify(v), v possibly holding references into heap h
RECURSIVE JSONStringify(_, _)
StringifyObject(f, h) ==
    LET keys == SelectSeq(FieldOrder,
                          LAMBDA name : name \in DOMAIN f /\ f[name].k # "undefined")
    IN  <<Tok("{")>>
        \o JoinComma([i \in 1..Len(keys) |->
                        <<TokStr(keys[i]), Tok(":")>> \o JSONStringify(f[keys[i]], h)])
        \o <<Tok("}")>>

JSONStringify(v, h) ==
    CASE v.k = "null" -> <<Tok("null")>>
      [] v.k = "undefined" -> <<Tok("null")>>
      [] v.k = "num" -> <<TokNum(v.n)>>
      [] v.k = "str" -> <<TokStr(v.s)>>
      [] v.k = "ref" -> StringifyObject(h[v.r], h)
      [] v.k = "obj" -> StringifyObject(v.f, h)
      [] v.k = "arr" ->
            <<Tok("[")>>
            \o JoinComma([i \in 1..Len(v.es) |-> JSONStringify(v.es[i], h)])
            \o <<Tok("]")>>

\* JSON.parse(ts): a recursive-descent parser; ok = FALSE is a SyntaxError
ParseFail == [ok |-> FALSE, v |-> JNull, i |-> 0]
ParseOk(v, i) == [ok |-> TRUE, v |-> v, i |-> i]

RECURSIVE ParseValue(_, _)
RECURSIVE ParseElements(_, _, _)
RECURSIVE ParseMembers(_, _, _)

ParseElements(ts, i, acc) ==
    LET r == ParseValue(ts, i) IN
    IF ~r.ok \/ r.i > Len(ts) THEN ParseFail
    ELSE IF ts[r.i].t = "," THEN ParseElements(ts, r.i + 1, Append(acc, r.v))
    ELSE IF ts[r.i].t = "]" THEN ParseOk(JArr(Append(acc, r.v)), r.i + 1)
    ELSE ParseFail

ParseMembers(ts, i, acc) ==
    IF i + 1 > Len(ts) \/ ts[i].t # "str" \/ ts[i + 1].t # ":" THEN ParseFail
    ELSE LET r == ParseValue(ts, i + 2) IN
         IF ~r.ok \/ r.i > Len(ts) THEN ParseFail
         ELSE LET f == (ts[i].s :> r.v) @@ acc IN
              IF ts[r.i].t = "," THEN ParseMembers(ts, r.i + 1, f)
              ELSE IF ts[r.i].t = "}" THEN ParseOk(JObj(f), r.i + 1)
              ELSE ParseFail

ParseValue(ts, i) ==
    IF i > Len(ts) THEN ParseFail
    ELSE CASE ts[i].t = "null" -> ParseOk(JNull, i + 1)
           [] ts[i].t = "num" -> ParseOk(JNum(ts[i].n), i + 1)
           [] ts[i].t = "str" -> ParseOk(JStr(ts[i].s), i + 1)
           [] ts[i].t = "[" ->
                 IF i + 1 <= Len(ts) /\ ts[i + 1].t = "]"
                 THEN ParseOk(EmptyArray, i + 2)
                 ELSE ParseElements(ts, i + 1, <<>>)
           [] ts[i].t = "{" ->
                 IF i + 1 <= Len(ts) /\ ts[i + 1].t = "}"
                 THEN ParseOk(JObj(EmptyObject), i + 2)
                 ELSE ParseMembers(ts, i + 1, EmptyObject)
           [] OTHER -> ParseFail

JSONParse(ts) ==
    LET r == ParseValue(ts, 1) IN
    IF r.ok /\ r.i = Len(ts) + 1 THEN [ok |-> TRUE, v |-> r.v]
    ELSE [ok |-> FALSE, v |-> JNull]

(***************************************************************************)
(* The inputs the model draws from.                                        *)
(***************************************************************************)
\* the records handed to addImage; handing one twice gives two objects of one id
ImgA == [id |-> JStr("a"), url |-> JStr("ua"), prompt |-> JStr("fox"), createdAt |-> JNum(1)]
ImgB == [id |-> JStr("b"), url |-> JStr("ub"), prompt |-> JStr("owl"), createdAt |-> JNum(2)]
Inputs == {ImgA, ImgB}

\* the ids handed to removeImage and getImage; "zz" is the id of no record
Ids == {"a", "b", "zz"}

\* the functions handed to subscribe
Listeners == {"handleStateChange", "otherListener"}

\* what localStorage holds under STORAGE_KEY: nothing, or a text
NoItem == [present |-> FALSE, text |-> <<>>]
Item(text) == [present |-> TRUE, text |-> text]

\* a slot that is missing or holds what the store never writes: the empty
\* text, a text cut short, valid JSON that is no list (null, a number, a lone
\* record) and a list of numbers
CorruptSlots ==
    { NoItem,
      Item(<<>>),
      Item(<<Tok("["), Tok("{"), TokStr("id")>>),
      Item(<<Tok("null")>>),
      Item(<<TokNum(7)>>),
      Item(JSONStringify(JObj(ImgA), <<>>)),
      Item(JSONStringify(JArr(<<JNum(7)>>), <<>>)) }

\* a slot as an earlier page of the program left it: never written, or
\* holding a list of records
ListSlots ==
    { NoItem,
      Item(JSONStringify(EmptyArray, <<>>)),
      Item(JSONStringify(JArr(<<JObj(ImgA)>>), <<>>)) }

\* the browser the page loads in: the slot, whether localStorage.getItem throws
\* (storage access denied), whether the quota is used up so that setItem throws
Envs(slots) ==
    {[slot |-> s, getItemThrows |-> FALSE, quotaFull |-> q] : s \in slots, q \in BOOLEAN}
    \cup {[slot |-> s, getItemThrows |-> TRUE, quotaFull |-> TRUE] : s \in slots}

(***************************************************************************)
(* State.                                                                  *)
(***************************************************************************)
VARIABLES
    images,       \* State.images: a JavaScript value, an array of references when sound
    heap,         \* the image objects, by reference
    listeners,    \* State.listeners: a Set, as the sequence of its insertion order
    saveTimeout,  \* State._saveTimeout: NoTimeout or a timer id
    timers,       \* the timers scheduled with setTimeout and not yet run or cleared
    storage,      \* localStorage[STORAGE_KEY]
    quotaFull,    \* TRUE when localStorage refuses every setItem (quota exceeded)
    held,         \* the array a caller got from getImages()
    heldRec,      \* the record a caller got from getImage(id): a reference or undefined
    op,           \* the operation that ran last
    calls,        \* the listener invocations made by that operation, in order
    before,       \* what getImages() would have returned before that operation
    wrote,        \* the last localStorage.setItem call: its text, whether it was accepted
    lastIO,       \* outcome of the last localStorage call: "ok" or "threw"
    burst,        \* mutations and writes since the last completed write
    elapsed,      \* time since the last addImage/removeImage mutation, up to the window
    added,        \* the references added by addImage since the last other mutation
    sinceClear,   \* TRUE from a clearAll until the next mutation
    active,       \* the listeners subscribed and not since unsubscribed
    regBefore,    \* pairs <<a, b>> of active listeners, a registered before b
    req,          \* the request an invocation of the generate handler was given
    hpc,          \* where that invocation stands
    res,          \* the response the handler sent
    fetches,      \* the calls the handler made to the upstream API, in order
    settled,      \* how the upstream API answered the call, once it has
    call,         \* the call of generateImage or enhancePrompt the page made
    gpc,          \* where that call stands
    posts,        \* the HTTP requests that call issued, in order
    result,       \* what the call returned or threw
    gallery,      \* the variables of the gallery module and the grid it renders
    gop,          \* the operation of the gallery that ran last
    gbefore,      \* placeholderElements before that operation
    app,          \* the input bar of the page: its controls, the calls awaiting, the toasts
    lightbox      \* the lightbox modal, the swipe on it, the scroll lock and the focus

\* the proxy: one invocation of the generate handler
proxyVars == <<req, hpc, res, fetches, settled>>

\* the gateway of the page to the proxy: one call of generateImage or enhancePrompt
gatewayVars == <<call, gpc, posts, result>>

\* what lies beyond the store of the page
remoteVars == <<proxyVars, gatewayVars>>

\* the gallery of the page
galleryVars == <<gallery, gop, gbefore>>

\* the input bar and the lightbox of the page
uiVars == <<app, lightbox>>

vars == <<images, heap, listeners, saveTimeout, timers, storage, quotaFull, held, heldRec,
          op, calls, before, wrote, lastIO, burst, elapsed, added, sinceClear,
          active, regBefore, remoteVars, galleryVars, uiVars>>

callerVars == <<held, heldRec>>
listenerVars == <<listeners, active, regBefore>>
storeVars == <<images, listeners, saveTimeout, timers, storage, quotaFull, wrote, lastIO,
               burst, elapsed, added, sinceClear, active, regBefore>>

\* the page: the store, what its callers hold and the history of its operations
pageVars == <<storeVars, heap, callerVars, op, calls, before>>

\* what getImages() returns, records by value; undefined when it throws
View == IF IsArray(images) THEN Deref(images, heap) ELSE JUndefined

Op(name) == [name |-> name, id |-> "", ref |-> 0, l |-> "", threw |-> FALSE]

Min(a, b) == IF a < b THEN a ELSE b
Max(a, b) == IF a > b THEN a ELSE b
Range(s) == {s[i] : i \in 1..Len(s)}
Reverse(s) == [i \in 1..Len(s) |-> s[Len(s) + 1 - i]]

(***************************************************************************)
(* load(): the value assigned to this.images, objects by value.            *)
(***************************************************************************)
\* load() that parses the stored text and drops the result
load_DropsParsed(slot, getItemThrows) == EmptyArray

load(slot, getItemThrows) ==
    IF getItemThrows THEN EmptyArray                  \* catch: this.images = []
    ELSE IF ~slot.present \/ slot.text = <<>> THEN EmptyArray   \* if (stored) fails
    ELSE LET r == JSONParse(slot.text) IN
         IF r.ok THEN r.v                             \* this.images = JSON.parse(stored)
         ELSE EmptyArray                              \* catch: this.images = []

\* the objects of a freshly parsed array, in order: they become the heap
ParsedObjects(v) ==
    IF IsArray(v)
    THEN LET objs == SelectSeq(v.es, LAMBDA e : e.k = "obj")
         IN  [i \in 1..Len(objs) |-> objs[i].f]
    ELSE <<>>

\* the parsed value with the objects of its array replaced by their references
ParsedRefs(v) ==
    IF IsArray(v)
    THEN JArr([i \in 1..Len(v.es) |->
                 IF v.es[i].k = "obj"
                 THEN JRef(Len(SelectSeq(SubSeq(v.es, 1, i), LAMBDA e : e.k = "obj")))
                 ELSE v.es[i]])
    ELSE v

\* constructor(): this.images = [], listeners = new Set(), _saveTimeout = null, load()
Constructed(envs) ==
    \E env \in envs :
        LET v == load(env.slot, env.getItemThrows) IN
        /\ storage = env.slot
        /\ images = ParsedRefs(v)
        /\ heap = ParsedObjects(v)
        /\ listeners = <<>>
        /\ saveTimeout = NoTimeout
        /\ timers = {}
        /\ quotaFull = env.quotaFull
        /\ held = [valid |-> FALSE, es |-> <<>>]
        /\ heldRec = JUndefined
        /\ op = [Op("constructor") EXCEPT !.threw = FALSE]
        /\ calls = <<>>
        /\ before = JUndefined
        /\ wrote = [ok |-> TRUE, text |-> <<>>]
        /\ lastIO = IF env.getItemThrows THEN "threw" ELSE "ok"
        /\ burst = [muts |-> 0, writes |-> 0]
        /\ elapsed = SAVE_DEBOUNCE_MS
        /\ added = <<>>
        /\ sinceClear = FALSE
        /\ active = {}
        /\ regBefore = {}

\* no request has reached the proxy
NoRequest == [method |-> "", body |-> EmptyObject, FAL_KEY |-> FALSE]
NoResponse == [sent |-> FALSE, status |-> 0, error |-> "", details |-> "", data |-> ""]
NoOutcome == [ok |-> FALSE, status |-> 0, json |-> FALSE, text |-> ""]

ProxyIdle ==
    /\ req = NoRequest
    /\ hpc = "idle"
    /\ res = NoResponse
    /\ fetches = <<>>
    /\ settled = NoOutcome

\* the page has called neither generateImage nor enhancePrompt
NoCall == [fn |-> "", prompt |-> JUndefined, options |-> EmptyObject]
NoResult == [threw |-> FALSE, message |-> "", value |-> ""]

GatewayIdle ==
    /\ call = NoCall
    /\ gpc = "idle"
    /\ posts = <<>>
    /\ result = NoResult

\* a Map with no entry
EmptyMap == [x \in {} |-> 0]

\* the module as it is loaded: no element, nothing pending
NoGallery ==
    [galleryElement |-> FALSE,        \* galleryElement and emptyStateElement are set
     children |-> <<>>,               \* galleryElement's children, first to last
     display |-> "",                  \* emptyStateElement.style.display
     placeholderElements |-> <<>>,    \* the placeholder nodes, oldest first
     confirmationTimeouts |-> EmptyMap,
     pendingDeletions |-> {},
     domTimers |-> {},                \* the timers the gallery scheduled
     loading |-> {}]                  \* the records whose image is being preloaded

\* the input bar as the document gives it: controls enabled, nothing awaited
NoApp ==
    [value |-> <<>>,              \* promptInput.value, as the pieces of a string
     inputDisabled |-> FALSE,     \* promptInput.disabled
     buttonDisabled |-> FALSE,    \* generateBtn.disabled
     enhanceDisabled |-> FALSE,   \* enhanceBtn.disabled
     generating |-> 0,            \* the handleGenerate calls that await generateImage
     enhancing |-> 0,             \* the handleEnhance calls that await enhancePrompt
     toasts |-> {},               \* the toasts in document.body
     toastTimers |-> {},          \* the timers showError has scheduled
     last |-> [name |-> "", during |-> FALSE, started |-> FALSE, failed |-> FALSE]]

\* the lightbox as the document gives it: closed, nothing locked
NoLightbox ==
    [active |-> FALSE,            \* modal has the class modal--active
     isScrollLocked |-> FALSE,
     bodyFixed |-> FALSE,         \* document.body.style.position is 'fixed'
     lastFocusedElement |-> "",   \* "" for null
     activeElement |-> "body",    \* document.activeElement
     swipe |-> [startY |-> 0, startTime |-> 0, deltaY |-> 0, isActive |-> FALSE],
     transform |-> 0,             \* the translateY of modalContent.style.transform
     dragging |-> FALSE,          \* modal has the class modal--dragging
     now |-> 0,                   \* Date.now(), from the load of the page
     touchY |-> 0,                \* clientY of the finger where it last was
     focusAtOpen |-> "",          \* document.activeElement when openLightbox was called
     last |-> [name |-> "", wasActive |-> FALSE, closed |-> FALSE, focusAfterClose |-> "",
               swiping |-> FALSE, displacement |-> 0, elapsed |-> 0]]

UiLoaded ==
    /\ app = NoApp
    /\ lightbox = NoLightbox

\* the gallery module is loaded and initGallery has not run
GalleryLoaded ==
    /\ gallery = NoGallery
    /\ gop = [name |-> "", id |-> ""]
    /\ gbefore = <<>>

\* the page loads over a slot the program left
Init == Constructed(Envs(ListSlots)) /\ ProxyIdle /\ GatewayIdle /\ GalleryLoaded /\ UiLoaded

\* the page loads over a slot that is missing or corrupt
InitCorrupt == Constructed(Envs(CorruptSlots)) /\ ProxyIdle /\ GatewayIdle /\ GalleryLoaded /\ UiLoaded

(***************************************************************************)
(* Timers and localStorage.                                                *)
(***************************************************************************)
\* setTimeout hands out an id that no scheduled timer has, a positive number
NewTimerId(ts) ==
    CHOOSE n \in 1..(Cardinality(ts) + 1) :
        /\ \A t \in ts : t.id # n
        /\ \A m \in 1..(n - 1) : \E t \in ts : t.id = m

setTimeout(ts, id, ms) == ts \cup {[id |-> id, left |-> ms]}
clearTimeout(ts, id) == {t \in ts : t.id # id}

\* localStorage.setItem: accepted, or refused with an exception (quota exceeded)
setItem(slot, text, accepted) ==
    IF accepted THEN [threw |-> FALSE, storage |-> Item(text)]
    ELSE [threw |-> TRUE, storage |-> slot]

\* save() that schedules a write without cancelling the pending one
save_NoCancel(to, ts) ==
    LET id == NewTimerId(ts)
    IN  [saveTimeout |-> id, timers |-> setTimeout(ts, id, SAVE_DEBOUNCE_MS)]

\* save(): cancel the pending write, schedule a new one
save(to, ts) ==
    LET ts1 == IF to # NoTimeout THEN clearTimeout(ts, to) ELSE ts
        id == NewTimerId(ts1)
    IN  [saveTimeout |-> id, timers |-> setTimeout(ts1, id, SAVE_DEBOUNCE_MS)]

\* the write without its try/catch: the exception of setItem leaves it
tryWrite_NoCatch(slot, imgs, h, accepted) ==
    LET w == setItem(slot, JSONStringify(imgs, h), accepted)
    IN  [storage |-> w.storage, threw |-> w.threw, refused |-> w.threw,
         text |-> JSONStringify(imgs, h)]

\* the write an operation makes: try { setItem(JSON.stringify(this.images)) } catch
\* threw is what leaves the try/catch: nothing
tryWrite(slot, imgs, h, accepted) ==
    LET w == setItem(slot, JSONStringify(imgs, h), accepted)
    IN  [storage |-> w.storage, threw |-> FALSE, refused |-> w.threw,
         text |-> JSONStringify(imgs, h)]

\* saveNow() that writes at once and leaves the pending write scheduled
saveNow_NoCancel(to, ts, slot, imgs, h, accepted) ==
    LET w == tryWrite(slot, imgs, h, accepted)
    IN  [saveTimeout |-> to, timers |-> ts,
         storage |-> w.storage, threw |-> w.threw, refused |-> w.refused, text |-> w.text]

\* saveNow(): cancel the pending write, write at once
saveNow(to, ts, slot, imgs, h, accepted) ==
    LET w == tryWrite(slot, imgs, h, accepted)
    IN  [saveTimeout |-> NoTimeout,
         timers |-> IF to # NoTimeout THEN clearTimeout(ts, to) ELSE ts,
         storage |-> w.storage, threw |-> w.threw, refused |-> w.refused, text |-> w.text]

\* notifyListeners(action, data): the calls made, in Set iteration order; the
\* listeners observe: they neither throw nor change the Set while it is walked
notifyListeners(ls, action, data) ==
    [i \in 1..Len(ls) |-> [l |-> ls[i], action |-> action, data |-> data]]

(***************************************************************************)
(* Array helpers of the store's operations.                                *)
(***************************************************************************)
\* push in place of unshift: the element goes to the back
unshift_Push(es, e) == Append(es, e)

\* Array.prototype.unshift: the element goes to the front
unshift(es, e) == <<e>> \o es

\* an array in place of the Set: add keeps every entry
setAdd_Push(ls, l) == Append(ls, l)

\* Set.prototype.add: one entry per function, in insertion order
setAdd(ls, l) == IF l \in Range(ls) THEN ls ELSE Append(ls, l)

\* Set.prototype.delete
setDelete(ls, l) == SelectSeq(ls, LAMBDA x : x # l)

\* img.id of an array element
ElemId(e, h) == IF e.k = "ref" THEN Field(h[e.r], "id") ELSE JUndefined

\* the index as splice(-1, 1) reads a -1 that went unchecked: the last element
findIndex_LastWhenAbsent(es, h, id) ==
    IF \E i \in 1..Len(es) : ElemId(es[i], h) = JStr(id)
    THEN CHOOSE i \in 1..Len(es) :
            /\ ElemId(es[i], h) = JStr(id)
            /\ \A j \in 1..(i - 1) : ElemId(es[j], h) # JStr(id)
    ELSE Len(es)

\* findIndex(img => img.id === id): the first match, 1-based; 0 stands for -1
findIndex(es, h, id) ==
    IF \E i \in 1..Len(es) : ElemId(es[i], h) = JStr(id)
    THEN CHOOSE i \in 1..Len(es) :
            /\ ElemId(es[i], h) = JStr(id)
            /\ \A j \in 1..(i - 1) : ElemId(es[j], h) # JStr(id)
    ELSE 0

\* splice(index, 1): the array without the element at index
splice(es, index) == SubSeq(es, 1, index - 1) \o SubSeq(es, index + 1, Len(es))

\* the history of mutations and writes after an addImage/removeImage mutation
BurstAfterMutation ==
    IF elapsed < SAVE_DEBOUNCE_MS
    THEN [burst EXCEPT !.muts = Min(@ + 1, 2)]
    ELSE [muts |-> 1, writes |-> 0]

(***************************************************************************)
(* The operations of the store.                                            *)
(***************************************************************************)
\* addImage(image): unshift, save, notify 'add'
addImage(image) ==
    /\ Len(heap) < MaxObjects
    /\ before' = View
    /\ IF ~IsArray(images)
       THEN \* this.images.unshift is not a function: TypeError
            /\ op' = [Op("addImage") EXCEPT !.threw = TRUE]
            /\ calls' = <<>>
            /\ UNCHANGED <<images, heap, saveTimeout, timers, burst, elapsed,
                           added, sinceClear>>
       ELSE LET ref == Len(heap) + 1
                s == save(saveTimeout, timers)
            IN  /\ heap' = Append(heap, image)
                /\ images' = JArr(unshift(images.es, JRef(ref)))
                /\ saveTimeout' = s.saveTimeout
                /\ timers' = s.timers
                /\ calls' = notifyListeners(listeners, "add", JRef(ref))
                /\ op' = [Op("addImage") EXCEPT !.ref = ref]
                /\ burst' = BurstAfterMutation
                /\ elapsed' = 0
                /\ added' = Append(added, ref)
                /\ sinceClear' = FALSE
    /\ UNCHANGED <<storage, quotaFull, wrote, lastIO, listenerVars, callerVars>>
    /\ UNCHANGED remoteVars

\* removeImage(id): remove the first record with that id, save, notify 'remove'
removeImage(id) ==
    /\ before' = View
    /\ IF ~IsArray(images)
       THEN \* this.images.findIndex is not a function: TypeError
            /\ op' = [Op("removeImage") EXCEPT !.id = id, !.threw = TRUE]
            /\ calls' = <<>>
            /\ UNCHANGED <<images, saveTimeout, timers, burst, elapsed, added, sinceClear>>
       ELSE LET index == findIndex(images.es, heap, id) IN
            IF index # 0
            THEN LET removed == images.es[index]
                     s == save(saveTimeout, timers)
                 IN  /\ images' = JArr(splice(images.es, index))
                     /\ saveTimeout' = s.saveTimeout
                     /\ timers' = s.timers
                     /\ calls' = notifyListeners(listeners, "remove", removed)
                     /\ op' = [Op("removeImage") EXCEPT !.id = id, !.ref = removed.r]
                     /\ burst' = BurstAfterMutation
                     /\ elapsed' = 0
                     /\ added' = <<>>
                     /\ sinceClear' = FALSE
            ELSE /\ op' = [Op("removeImage") EXCEPT !.id = id]
                 /\ calls' = <<>>
                 /\ UNCHANGED <<images, saveTimeout, timers, burst, elapsed, added,
                                sinceClear>>
    /\ UNCHANGED <<heap, storage, quotaFull, wrote, lastIO, listenerVars, callerVars>>
    /\ UNCHANGED remoteVars

\* clearAll() that tells the listeners only when there was something to clear
clearAll_NotifyIfChanged ==
        LET s == saveNow(saveTimeout, timers, storage, EmptyArray, heap, ~quotaFull) IN
        /\ before' = View
        /\ images' = EmptyArray
        /\ saveTimeout' = s.saveTimeout
        /\ timers' = s.timers
        /\ storage' = s.storage
        /\ wrote' = [ok |-> ~s.refused, text |-> s.text]
        /\ lastIO' = IF s.refused THEN "threw" ELSE "ok"
        /\ calls' = IF images = EmptyArray THEN <<>>
                     ELSE notifyListeners(listeners, "clear", JNull)
        /\ op' = Op("clearAll")
        /\ burst' = [muts |-> 0, writes |-> 0]
        /\ added' = <<>>
        /\ sinceClear' = TRUE
        /\ UNCHANGED <<heap, quotaFull, elapsed, listenerVars, callerVars>>
        /\ UNCHANGED remoteVars

\* clearAll(): this.images = [], saveNow, notify 'clear'
clearAll ==
        LET s == saveNow(saveTimeout, timers, storage, EmptyArray, heap, ~quotaFull) IN
        /\ before' = View
        /\ images' = EmptyArray
        /\ saveTimeout' = s.saveTimeout
        /\ timers' = s.timers
        /\ storage' = s.storage
        /\ wrote' = [ok |-> ~s.refused, text |-> s.text]
        /\ lastIO' = IF s.refused THEN "threw" ELSE "ok"
        /\ IF s.threw
           THEN /\ calls' = <<>>
                /\ op' = [Op("clearAll") EXCEPT !.threw = TRUE]
           ELSE /\ calls' = notifyListeners(listeners, "clear", JNull)
                /\ op' = Op("clearAll")
        /\ burst' = [muts |-> 0, writes |-> 0]
        /\ added' = <<>>
        /\ sinceClear' = TRUE
        /\ UNCHANGED <<heap, quotaFull, elapsed, listenerVars, callerVars>>
        /\ UNCHANGED remoteVars

\* subscribe(listener): Set.add keeps one entry per function, in insertion order
subscribe(l) ==
    /\ listeners' = setAdd(listeners, l)
    /\ regBefore' = IF l \in active THEN regBefore
                    ELSE regBefore \cup {<<a, l>> : a \in active}
    /\ active' = active \cup {l}
    /\ op' = [Op("subscribe") EXCEPT !.l = l]
    /\ calls' = <<>>
    /\ before' = View
    /\ UNCHANGED <<images, heap, saveTimeout, timers, storage, quotaFull, wrote, lastIO,
                   burst, elapsed, added, sinceClear, callerVars>>
    /\ UNCHANGED remoteVars

\* the function subscribe returned, called while the listener is subscribed:
\* () => this.listeners.delete(listener)
unsubscribe(l) ==
    /\ l \in active
    /\ listeners' = setDelete(listeners, l)
    /\ active' = active \ {l}
    /\ regBefore' = {p \in regBefore : p[1] # l /\ p[2] # l}
    /\ op' = [Op("unsubscribe") EXCEPT !.l = l]
    /\ calls' = <<>>
    /\ before' = View
    /\ UNCHANGED <<images, heap, saveTimeout, timers, storage, quotaFull, wrote, lastIO,
                   burst, elapsed, added, sinceClear, callerVars>>
    /\ UNCHANGED remoteVars
    /\ UNCHANGED <<galleryVars, uiVars>>

(***************************************************************************)
(* Time and the debounced write.                                           *)
(***************************************************************************)
\* TickMs pass: every timer comes closer
Tick ==
    /\ elapsed < SAVE_DEBOUNCE_MS \/ \E t \in timers : t.left > 0
    /\ timers' = {[t EXCEPT !.left = Max(0, @ - TickMs)] : t \in timers}
    /\ elapsed' = Min(elapsed + TickMs, SAVE_DEBOUNCE_MS)
    /\ op' = Op("tick")
    /\ calls' = <<>>
    /\ before' = View
    /\ UNCHANGED <<images, heap, saveTimeout, storage, quotaFull, wrote, lastIO, burst,
                   added, sinceClear, listenerVars, callerVars>>
    /\ UNCHANGED remoteVars
    /\ UNCHANGED <<galleryVars, uiVars>>

\* the callback save() scheduled runs: _saveTimeout = null, try { setItem } catch
saveTimer ==
    \E t \in timers :
        LET w == tryWrite(storage, images, heap, ~quotaFull) IN
        /\ t.left = 0
        /\ timers' = timers \ {t}
        /\ saveTimeout' = NoTimeout
        /\ storage' = w.storage
        /\ wrote' = [ok |-> ~w.refused, text |-> w.text]
        /\ lastIO' = IF w.refused THEN "threw" ELSE "ok"
        /\ op' = [Op("saveTimer") EXCEPT !.threw = w.threw]
        /\ calls' = <<>>
        /\ before' = View
        /\ burst' = [burst EXCEPT !.writes = @ + 1]
        /\ UNCHANGED <<images, heap, quotaFull, elapsed, added, sinceClear, listenerVars,
                       callerVars>>
        /\ UNCHANGED remoteVars
        /\ UNCHANGED <<galleryVars, uiVars>>

(***************************************************************************)
(* The store under its own operations and the passage of time.             *)
(***************************************************************************)
\* the store by itself: no gallery listens
Mutations ==
    \/ \E image \in Inputs : addImage(image) /\ UNCHANGED <<galleryVars, uiVars>>
    \/ \E id \in Ids : removeImage(id) /\ UNCHANGED <<galleryVars, uiVars>>
    \/ clearAll /\ UNCHANGED <<galleryVars, uiVars>>

Next ==
    \/ Mutations
    \/ \E l \in Listeners : subscribe(l) /\ UNCHANGED <<galleryVars, uiVars>>
    \/ \E l \in Listeners : unsubscribe(l)
    \/ Tick
    \/ saveTimer

Spec == Init /\ [][Next]_vars

\* the same store constructed over a missing or corrupt slot
SpecCorrupt == InitCorrupt /\ [][Next]_vars

(***************************************************************************)
(* Callers that read the store and change what they were handed.           *)
(***************************************************************************)
\* getImages(): [...this.images], a new array of the same elements
getImages ==
    /\ IF IsArray(images)
       THEN /\ held' = [valid |-> TRUE, es |-> images.es]
            /\ op' = Op("getImages")
       ELSE \* this.images is not iterable: TypeError
            /\ held' = held
            /\ op' = [Op("getImages") EXCEPT !.threw = TRUE]
    /\ calls' = <<>>
    /\ before' = View
    /\ UNCHANGED <<storeVars, heap, heldRec>>
    /\ UNCHANGED remoteVars
    /\ UNCHANGED <<galleryVars, uiVars>>

\* getImage(id): this.images.find(img => img.id === id), the element itself
getImage(id) ==
    /\ IF IsArray(images)
       THEN LET index == findIndex(images.es, heap, id) IN
            /\ heldRec' = IF index # 0 THEN images.es[index] ELSE JUndefined
            /\ op' = [Op("getImage") EXCEPT !.id = id]
       ELSE \* this.images.find is not a function: TypeError
            /\ heldRec' = heldRec
            /\ op' = [Op("getImage") EXCEPT !.id = id, !.threw = TRUE]
    /\ calls' = <<>>
    /\ before' = View
    /\ UNCHANGED <<storeVars, heap, held>>
    /\ UNCHANGED remoteVars
    /\ UNCHANGED <<galleryVars, uiVars>>

\* the caller reorders the array it holds: held.reverse()
callerReverse ==
    /\ held.valid /\ Len(held.es) >= 2
    /\ held' = [held EXCEPT !.es = Reverse(@)]
    /\ op' = Op("callerReverse")
    /\ calls' = <<>>
    /\ before' = View
    /\ UNCHANGED <<storeVars, heap, heldRec>>
    /\ UNCHANGED remoteVars
    /\ UNCHANGED <<galleryVars, uiVars>>

\* the caller removes an element of the array it holds: held.shift()
callerShift ==
    /\ held.valid /\ Len(held.es) >= 1
    /\ held' = [held EXCEPT !.es = Tail(@)]
    /\ op' = Op("callerShift")
    /\ calls' = <<>>
    /\ before' = View
    /\ UNCHANGED <<storeVars, heap, heldRec>>
    /\ UNCHANGED remoteVars
    /\ UNCHANGED <<galleryVars, uiVars>>

\* the caller adds an element to the array it holds: held.push(null)
callerPush ==
    /\ held.valid /\ held.es = images.es
    /\ held' = [held EXCEPT !.es = Append(@, JNull)]
    /\ op' = Op("callerPush")
    /\ calls' = <<>>
    /\ before' = View
    /\ UNCHANGED <<storeVars, heap, heldRec>>
    /\ UNCHANGED remoteVars
    /\ UNCHANGED <<galleryVars, uiVars>>

\* the records a caller can reach through what it holds
Reachable ==
    {held.es[i].r : i \in {j \in 1..Len(held.es) : held.es[j].k = "ref"}}
    \cup (IF heldRec.k = "ref" THEN {heldRec.r} ELSE {})

\* the caller changes a field of a record it reached: rec.prompt = 'edited'
callerSetField(ref) ==
    /\ ref \in Reachable
    /\ heap' = [heap EXCEPT ![ref] = [@ EXCEPT !["prompt"] = JStr("edited")]]
    /\ op' = [Op("callerSetField") EXCEPT !.ref = ref]
    /\ calls' = <<>>
    /\ before' = View
    /\ UNCHANGED <<storeVars, callerVars>>
    /\ UNCHANGED remoteVars
    /\ UNCHANGED <<galleryVars, uiVars>>

CallerNext ==
    \/ getImages
    \/ \E id \in Ids : getImage(id)
    \/ callerReverse
    \/ callerShift
    \/ callerPush
    \/ \E ref \in 1..MaxObjects : callerSetField(ref)

\* the list of the store together with callers that keep what getImages and
\* getImage return; the listeners and the pending write read nothing a caller holds
SpecCallers == Init /\ [][Mutations \/ CallerNext]_vars

(***************************************************************************)
(* The generate handler of the proxy (src/api/generate.js): JavaScript     *)
(* strings and numbers as the handler reads them.  A string is the         *)
(* sequence of its pieces: a blank, a digit, or a run of other characters. *)
(***************************************************************************)
JNaN == [k |-> "nan"]

\* the string of one word
W(word) == JStr(<<word>>)

Blank == " "
DigitValue ==
    ("0" :> 0) @@ ("1" :> 1) @@ ("2" :> 2) @@ ("3" :> 3) @@ ("4" :> 4)
    @@ ("5" :> 5) @@ ("6" :> 6) @@ ("7" :> 7) @@ ("8" :> 8) @@ ("9" :> 9)

IsString(v) == v.k = "str"

\* ToBoolean(v): what if (v) and v || d test
Truthy(v) ==
    CASE v.k = "undefined" -> FALSE
      [] v.k = "null" -> FALSE
      [] v.k = "nan" -> FALSE
      [] v.k = "num" -> v.n # 0
      [] v.k = "str" -> v.s # <<>>
      [] OTHER -> TRUE

RECURSIVE TrimStart(_)
TrimStart(cs) ==
    IF cs # <<>> /\ Head(cs) = Blank THEN TrimStart(Tail(cs)) ELSE cs

\* String.prototype.trim on the pieces of a string
trim(cs) == Reverse(TrimStart(Reverse(TrimStart(cs))))

\* the digits a string starts with, as a number; -1 when it starts with none
RECURSIVE LeadingDigits(_, _)
LeadingDigits(cs, acc) ==
    IF cs # <<>> /\ Head(cs) \in DOMAIN DigitValue
    THEN LeadingDigits(Tail(cs), (IF acc < 0 THEN 0 ELSE acc * 10) + DigitValue[Head(cs)])
    ELSE acc

\* parseInt(v, 10): a number as it is (the model has integers only), a string
\* by its leading digits after leading blanks, anything else NaN
parseInt(v) ==
    CASE v.k = "num" -> v
      [] v.k = "str" ->
            LET n == LeadingDigits(TrimStart(v.s), -1)
            IN  IF n < 0 THEN JNaN ELSE JNum(n)
      [] OTHER -> JNaN

\* a || b
Or(a, b) == IF Truthy(a) THEN a ELSE b

\* a destructuring default: it applies to a property that is undefined only
Default(body, name, d) ==
    IF Field(body, name).k = "undefined" THEN d ELSE Field(body, name)

\* arr.slice(-n): the last n elements
sliceLast(es, n) == SubSeq(es, Max(1, Len(es) - n + 1), Len(es))

\* arr.slice(0, n): the first n elements
sliceFirst(es, n) == SubSeq(es, 1, Min(n, Len(es)))

\* typeof url === 'string' && url.trim() !== ''
NonEmptyString(v) == IsString(v) /\ trim(v.s) # <<>>

\* normalizedImageUrls: the non-blank strings of image_urls, then image_url
\* trimmed when it is a non-blank string
normalizedImageUrls(image_url, image_urls) ==
    (IF IsArray(image_urls)
     THEN SelectSeq(image_urls.es, LAMBDA url : NonEmptyString(url))
     ELSE <<>>)
    \o (IF Truthy(image_url) /\ NonEmptyString(image_url)
        THEN <<JStr(trim(image_url.s))>>
        ELSE <<>>)

(***************************************************************************)
(* What one invocation of the handler does up to its first await: it       *)
(* answers, it throws, or it calls the upstream API.  Of the payload the   *)
(* model keeps prompt, num_inference_steps / steps_num, num_images /       *)
(* max_images, output_format, image_url, image_urls and negative_prompt;   *)
(* the other properties are copied or parsed and decide nothing.           *)
(***************************************************************************)
NoPayload == EmptyObject

\* res.status(status).json({ error })
Reply(status, error) ==
    [kind |-> "reply", status |-> status, error |-> error,
     apiEndpoint |-> "", payload |-> NoPayload]

\* res.status(200).end()
End(status) == Reply(status, "")

\* an exception that leaves the handler: negative_prompt.trim is not a function
Throws == [kind |-> "throw", status |-> 0, error |-> "TypeError",
           apiEndpoint |-> "", payload |-> NoPayload]

\* the handler reaches fetch(apiEndpoint, { body: JSON.stringify(payload) })
Fetch(apiEndpoint, payload) ==
    [kind |-> "fetch", status |-> 0, error |-> "",
     apiEndpoint |-> apiEndpoint, payload |-> payload]

\* if (negative_prompt && negative_prompt.trim() !== '') on what is no string
negativePromptThrows(np) == Truthy(np) /\ ~IsString(np)

\* payload.negative_prompt = negative_prompt.trim(), when provided
withNegativePrompt(payload, np) ==
    IF Truthy(np) /\ trim(np.s) # <<>>
    THEN ("negative_prompt" :> JStr(trim(np.s))) @@ payload
    ELSE payload

\* payload.image_url = image_url.trim(), for a non-blank string
withReferenceImage(payload, image_url) ==
    IF Truthy(image_url) /\ NonEmptyString(image_url)
    THEN ("image_url" :> JStr(trim(image_url.s))) @@ payload
    ELSE payload

\* output_format === 'webp' ? fallback : output_format
downgrade(output_format, fallback) ==
    IF output_format = W("webp") THEN W(fallback) ELSE output_format

\* parseInt(num_inference_steps, 10) || own
steps(num_inference_steps, own) == Or(parseInt(num_inference_steps), JNum(own))

\* wan-26-image-to-image: normalizedImageUrls.length < 1 || length > 3 fails
wanImageCountOk(n) == n >= 1 /\ n <= 3

\* flux-kontext: if (!image_url) fails
fluxKontextHasImage(image_url) == Truthy(image_url)

\* the payload of each branch of the chain of model tests
modelBranch(model, prompt, num_inference_steps, num_images, output_format, image_url, image_urls, negative_prompt) ==
    LET normalized == normalizedImageUrls(image_url, image_urls)
        base == ("prompt" :> JStr(trim(prompt.s)))
        count == ("num_images" :> parseInt(num_images))
        stepsOf(own) == ("num_inference_steps" :> steps(num_inference_steps, own))
        format(fallback) == ("output_format" :> downgrade(output_format, fallback))
    IN
    CASE model = W("qwen-image") ->
            IF negativePromptThrows(negative_prompt) THEN Throws
            ELSE Fetch("https://fal.run/fal-ai/qwen-image",
                       LET p == withNegativePrompt(
                                   base @@ count @@ format("png")
                                   @@ ("num_inference_steps" :> parseInt(num_inference_steps)),
                                   negative_prompt)
                       IN  IF Truthy(image_url) THEN ("image_url" :> image_url) @@ p ELSE p)
      [] model = W("flux-kontext") ->
            IF ~fluxKontextHasImage(image_url)
            THEN Reply(400, "FLUX Kontext requires an input image")
            ELSE Fetch("https://fal.run/fal-ai/flux-pro/kontext",
                       base @@ count @@ format("jpeg") @@ ("image_url" :> image_url))
      [] model = W("hidream-i1-fast") ->
            IF negativePromptThrows(negative_prompt) THEN Throws
            ELSE Fetch("https://fal.run/fal-ai/hidream-i1-fast",
                       withNegativePrompt(base @@ count @@ stepsOf(50) @@ format("jpeg"),
                                          negative_prompt))
      [] model = W("hunyuan-image") ->
            IF negativePromptThrows(negative_prompt) THEN Throws
            ELSE Fetch("https://fal.run/fal-ai/hunyuan-image/v3/text-to-image",
                       withNegativePrompt(base @@ count @@ stepsOf(28) @@ format("png"),
                                          negative_prompt))
      [] model = W("flux-dev") ->
            Fetch("https://fal.run/fal-ai/flux/dev",
                  base @@ count @@ stepsOf(50) @@ format("jpeg"))
      [] model = W("flux-kontext-lora-t2i") ->
            Fetch("https://fal.run/fal-ai/flux-kontext-lora/text-to-image",
                  base @@ count @@ stepsOf(30) @@ format("png"))
      [] model = W("piflow") ->
            Fetch("https://fal.run/fal-ai/piflow",
                  base @@ count @@ stepsOf(8) @@ format("jpeg"))
      [] model = W("seedream-45") ->
            Fetch("https://fal.run/fal-ai/bytedance/seedream/v4.5/text-to-image",
                  base @@ count)
      [] model = W("seedream-45-edit") ->
            IF Len(normalized) = 0
            THEN Reply(400, "Seedream 4.5 Edit requires at least one input image")
            ELSE Fetch("https://fal.run/fal-ai/bytedance/seedream/v4.5/edit",
                       base @@ count @@ ("image_urls" :> JArr(sliceLast(normalized, 10))))
      [] model = W("reve") ->
            Fetch("https://fal.run/fal-ai/reve/text-to-image",
                  base @@ count @@ ("output_format" :> output_format))
      [] model = W("nano-banana-pro-edit") ->
            IF Len(normalized) = 0
            THEN Reply(400, "Nano Banana Pro Edit requires at least one input image")
            ELSE Fetch("https://fal.run/fal-ai/nano-banana-pro/edit",
                       base @@ count @@ ("image_urls" :> JArr(normalized))
                       @@ ("output_format" :> Or(output_format, W("png"))))
      [] model = W("fibo") ->
            IF negativePromptThrows(negative_prompt) THEN Throws
            ELSE Fetch("https://fal.run/bria/fibo/generate",
                       withReferenceImage(
                           withNegativePrompt(
                               base @@ ("steps_num" :> steps(num_inference_steps, 50)),
                               negative_prompt),
                           image_url))
      [] model = W("wan-26-text-to-image") ->
            IF negativePromptThrows(negative_prompt) THEN Throws
            ELSE Fetch("https://fal.run/wan/v2.6/text-to-image",
                       withReferenceImage(
                           withNegativePrompt(
                               base @@ ("max_images" :> parseInt(num_images)),
                               negative_prompt),
                           image_url))
      [] model = W("wan-26-image-to-image") ->
            IF ~wanImageCountOk(Len(normalized))
            THEN Reply(400, "Wan v2.6 Image-to-Image requires 1-3 input images")
            ELSE IF negativePromptThrows(negative_prompt) THEN Throws
            ELSE Fetch("https://fal.run/wan/v2.6/image-to-image",
                       withNegativePrompt(
                           base @@ count @@ ("image_urls" :> JArr(sliceFirst(normalized, 3))),
                           negative_prompt))
      [] OTHER ->
            Fetch("https://fal.run/fal-ai/z-image/turbo",
                  base @@ count
                  @@ ("num_inference_steps" :> parseInt(num_inference_steps))
                  @@ ("output_format" :> output_format))

\* num_images must be an integer between 1 and 4
numImagesOk(num_images) ==
    LET parsedNumImages == parseInt(num_images)
    IN  parsedNumImages.k = "num" /\ parsedNumImages.n >= 1 /\ parsedNumImages.n <= 4

\* handler(req, res) up to its first await
handlerSync(method, body, FAL_KEY) ==
    IF method = "OPTIONS" THEN End(200)
    ELSE IF method # "POST" THEN Reply(405, "Method not allowed")
    ELSE LET prompt == Field(body, "prompt")
             model == Default(body, "model", W("z-image-turbo"))
             num_inference_steps == Default(body, "num_inference_steps", JNum(30))
             num_images == Default(body, "num_images", JNum(1))
             output_format == Default(body, "output_format", W("png"))
             negative_prompt == Default(body, "negative_prompt", JStr(<<>>))
             image_url == Default(body, "image_url", JNull)
             image_urls == Default(body, "image_urls", EmptyArray)
         IN  IF ~Truthy(prompt) \/ ~IsString(prompt)
             THEN Reply(400, "Prompt is required")
             ELSE IF ~numImagesOk(num_images)
             THEN \* the message, without the backquotes around num_images
                  Reply(400, "num_images must be an integer between 1 and 4")
             ELSE IF ~FAL_KEY
             THEN Reply(500, "FAL_KEY environment variable is not configured")
             ELSE modelBranch(model, prompt, num_inference_steps, num_images,
                              output_format, image_url, image_urls, negative_prompt)

(***************************************************************************)
(* The requests the proxy is sent, and one invocation of its handler.      *)
(***************************************************************************)
\* length of the longest image_urls list a request carries
MaxUrls == 11

\* the i-th image reference
Url(i) == JStr(<<"img", ToString(i)>>)
Urls(n) == [i \in 1..n |-> Url(i)]

\* an object of these properties, those given as undefined left out
Body(fields) ==
    [name \in {x \in DOMAIN fields : fields[x].k # "undefined"} |-> fields[name]]

Methods == {"POST", "GET", "OPTIONS"}
Prompts == {JUndefined, JStr(<<>>), JStr(<<Blank>>), JStr(<<Blank, "fox", Blank>>), JNum(5)}
NumImages == {JUndefined, JNum(4), JNum(5), JNum(0), JStr(<<Blank, "2">>), W("many")}
Models ==
    {JUndefined, W("no-such-model"), W("qwen-image"), W("flux-kontext"),
     W("hidream-i1-fast"), W("hunyuan-image"), W("flux-dev"), W("flux-kontext-lora-t2i"),
     W("piflow"), W("seedream-45"), W("seedream-45-edit"), W("reve"),
     W("nano-banana-pro-edit"), W("fibo"), W("wan-26-text-to-image"),
     W("wan-26-image-to-image")}
Steps == {JUndefined, JNum(0), JStr(<<"1", "2">>)}
Formats == {JUndefined, W("jpeg"), W("webp"), W("gif")}
NegativePrompts == {JUndefined, JStr(<<Blank, "blur">>), JNum(5)}
ImageUrl == {JUndefined, JStr(<<Blank>>), JStr(<<Blank, "img0", Blank>>), JNum(5)}
ImageUrls ==
    {JUndefined,
     JArr(<<JStr(<<Blank>>)>>),
     JArr(<<Url(1), JStr(<<Blank>>), JNum(7), Url(2)>>),
     JArr(Urls(4)),
     JArr(Urls(MaxUrls)),
     Url(1)}

\* requests that differ in what the handler tests first: the method, the
\* prompt, num_images and the credential, with nothing else in the body
GateRequests ==
    {[method |-> m,
      body |-> Body([prompt |-> p, num_images |-> n]),
      FAL_KEY |-> key] :
        m \in Methods, p \in Prompts, n \in NumImages, key \in BOOLEAN}

\* requests that pass those tests and differ in what the model branches read
ModelRequests ==
    {[method |-> "POST",
      body |-> Body([prompt |-> JStr(<<Blank, "fox", Blank>>),
                     num_images |-> x[1], model |-> x[2], num_inference_steps |-> x[3],
                     output_format |-> x[4], negative_prompt |-> x[5],
                     image_url |-> x[6], image_urls |-> x[7]]),
      FAL_KEY |-> TRUE] :
        x \in {JUndefined, JStr(<<"2">>)} \X Models \X Steps \X Formats
              \X NegativePrompts \X ImageUrl \X ImageUrls}

Requests == GateRequests \cup ModelRequests

\* what the upstream API does with a call: a JSON answer, an answer that is no
\* JSON, a refusal with a status and a text, or no answer at all
UpstreamOutcomes ==
    {[ok |-> TRUE, status |-> 200, json |-> TRUE, text |-> "images"],
     [ok |-> TRUE, status |-> 200, json |-> FALSE, text |-> "<html>"],
     [ok |-> FALSE, status |-> 422, json |-> TRUE, text |-> "detail"],
     [ok |-> FALSE, status |-> 503, json |-> FALSE, text |-> "unavailable"],
     [ok |-> FALSE, status |-> 0, json |-> FALSE, text |-> "rejected"]}

\* the proxy runs apart from any page: the store is one constructed over an
\* empty slot, and stays as it is
InitHandler ==
    /\ Constructed({[slot |-> NoItem, getItemThrows |-> FALSE, quotaFull |-> FALSE]})
    /\ req \in Requests
    /\ hpc = "called"
    /\ res = NoResponse
    /\ fetches = <<>>
    /\ settled = NoOutcome
    /\ GatewayIdle
    /\ GalleryLoaded /\ UiLoaded

\* handler(req, res) runs to its first await: it answers, throws or calls fetch
handler ==
    /\ hpc = "called"
    /\ LET r == handlerSync(req.method, req.body, req.FAL_KEY) IN
       CASE r.kind = "reply" ->
                /\ res' = [NoResponse EXCEPT !.sent = TRUE, !.status = r.status,
                                             !.error = r.error]
                /\ hpc' = "returned"
                /\ fetches' = fetches
         [] r.kind = "throw" ->
                /\ hpc' = "threw"
                /\ UNCHANGED <<res, fetches>>
         [] r.kind = "fetch" ->
                /\ fetches' = Append(fetches, [apiEndpoint |-> r.apiEndpoint,
                                               payload |-> r.payload])
                /\ hpc' = "awaiting"
                /\ res' = res
    /\ UNCHANGED <<req, settled, pageVars, gatewayVars, galleryVars, uiVars>>

\* the call settles and the handler runs to its end: relay, or catch
fetchSettles ==
    /\ hpc = "awaiting"
    /\ \E up \in UpstreamOutcomes :
          /\ settled' = up
          /\ res' = IF up.status = 0
                    THEN \* fetch rejected: catch
                         [NoResponse EXCEPT !.sent = TRUE, !.status = 500,
                                            !.error = "Internal server error"]
                    ELSE IF ~up.ok
                    THEN \* if (!response.ok): relay the status and the text
                         [NoResponse EXCEPT !.sent = TRUE, !.status = up.status,
                                            !.error = "Failed to generate image",
                                            !.details = up.text]
                    ELSE IF ~up.json
                    THEN \* response.json() rejected: catch
                         [NoResponse EXCEPT !.sent = TRUE, !.status = 500,
                                            !.error = "Internal server error"]
                    ELSE [NoResponse EXCEPT !.sent = TRUE, !.status = 200, !.data = up.text]
    /\ hpc' = "returned"
    /\ UNCHANGED <<req, fetches, pageVars, gatewayVars, galleryVars, uiVars>>

NextHandler ==
    \/ handler
    \/ fetchSettles

SpecHandler == InitHandler /\ [][NextHandler]_vars

(***************************************************************************)
(* The gateway of the page (src/unnamed/part_003, API): generateImage and  *)
(* enhancePrompt, each one call from its entry to its return or throw.     *)
(***************************************************************************)
API_ENDPOINT == "/api/generate"
ENHANCE_ENDPOINT == "/api/enhance"

\* the prompts the page hands over, and the options of generateImage
GatewayPrompts ==
    {JUndefined, JNull, JNum(0), JNum(5), JStr(<<>>), JStr(<<Blank>>),
     JStr(<<Blank, Blank>>), W("fox"), JStr(<<"fox", Blank>>),
     JStr(<<Blank, "red", Blank, "fox", Blank>>)}
GatewayOptions ==
    {EmptyObject, ("model" :> W("piflow")), ("model" :> W("flux-kontext")) @@ ("image_url" :> Url(1))}

GatewayCalls ==
    {[fn |-> "generateImage", prompt |-> p, options |-> o] :
        p \in GatewayPrompts, o \in GatewayOptions}
    \cup {[fn |-> "enhancePrompt", prompt |-> p, options |-> EmptyObject] :
            p \in GatewayPrompts}

\* what the proxy does with a request: an answer with the result, an answer
\* without one, an answer that is no JSON, an error with or without a JSON
\* body, or no answer at all (fetch rejects with a TypeError)
GatewayOutcomes ==
    {[ok |-> TRUE, status |-> 200, json |-> TRUE, filled |-> TRUE, error |-> ""],
     [ok |-> TRUE, status |-> 200, json |-> TRUE, filled |-> FALSE, error |-> ""],
     [ok |-> TRUE, status |-> 200, json |-> FALSE, filled |-> FALSE, error |-> ""],
     [ok |-> FALSE, status |-> 400, json |-> TRUE, filled |-> FALSE, error |-> "Prompt is required"],
     [ok |-> FALSE, status |-> 502, json |-> FALSE, filled |-> FALSE, error |-> ""],
     [ok |-> FALSE, status |-> 0, json |-> FALSE, filled |-> FALSE, error |-> ""]}

\* the test that lets a blank prompt through: no look at the trimmed prompt
promptRejected_NoTrim(prompt) ==
    IF ~Truthy(prompt) \/ ~IsString(prompt) THEN "Prompt is required"
    ELSE ""

\* if (!prompt || typeof prompt !== 'string') throw; if (trimmed.length === 0)
\* throw: the message thrown, "" when the prompt is let through
promptRejected(prompt) ==
    IF ~Truthy(prompt) \/ ~IsString(prompt) THEN "Prompt is required"
    ELSE IF Len(trim(prompt.s)) = 0 THEN "Prompt cannot be empty"
    ELSE ""

\* the body of the request: { prompt: trimmedPrompt, ...options }, or { prompt }
requestBody(c) ==
    IF c.fn = "generateImage"
    THEN c.options @@ ("prompt" :> JStr(trim(c.prompt.s)))
    ELSE ("prompt" :> JStr(trim(c.prompt.s)))

\* the store of the page plays no part in a call: it is one constructed over
\* an empty slot, and stays as it is
InitGateway ==
    /\ Constructed({[slot |-> NoItem, getItemThrows |-> FALSE, quotaFull |-> FALSE]})
    /\ ProxyIdle
    /\ call \in GatewayCalls
    /\ gpc = "called"
    /\ posts = <<>>
    /\ result = NoResult
    /\ GalleryLoaded /\ UiLoaded

\* generateImage / enhancePrompt from entry to the await of fetch
gatewayCall ==
    /\ gpc = "called"
    /\ LET message == promptRejected(call.prompt) IN
       IF message # ""
       THEN /\ result' = [NoResult EXCEPT !.threw = TRUE, !.message = message]
            /\ gpc' = "threw"
            /\ posts' = posts
       ELSE /\ posts' = Append(posts,
                               [url |-> IF call.fn = "generateImage"
                                        THEN API_ENDPOINT ELSE ENHANCE_ENDPOINT,
                                method |-> "POST",
                                body |-> requestBody(call)])
            /\ gpc' = "awaiting"
            /\ result' = result
    /\ UNCHANGED <<call, pageVars, proxyVars, galleryVars, uiVars>>

\* the message of the Error the call throws for an answer, "" when it returns
gatewayError(fn, up) ==
    IF up.status = 0 THEN "Network error: please check your connection"
    ELSE IF ~up.ok
    THEN IF up.json /\ up.error # "" THEN up.error ELSE "HTTP error! status"
    ELSE IF ~up.json THEN "SyntaxError"
    ELSE IF ~up.filled
    THEN IF fn = "generateImage" THEN "Invalid response: no images returned"
         ELSE "Invalid response: no enhanced prompt returned"
    ELSE ""

\* the request settles and the call runs to its end
gatewaySettles ==
    /\ gpc = "awaiting"
    /\ \E up \in GatewayOutcomes :
          LET message == gatewayError(call.fn, up) IN
          IF message # ""
          THEN /\ result' = [NoResult EXCEPT !.threw = TRUE, !.message = message]
               /\ gpc' = "threw"
          ELSE /\ result' = [NoResult EXCEPT !.value = "data"]
               /\ gpc' = "returned"
    /\ UNCHANGED <<call, posts, pageVars, proxyVars, galleryVars, uiVars>>

NextGateway ==
    \/ gatewayCall
    \/ gatewaySettles

SpecGateway == InitGateway /\ [][NextGateway]_vars

(***************************************************************************)
(* The gallery (src/unnamed/part_001): the module's variables as one       *)
(* record, and its functions as functions from that record to the next.    *)
(* A node of the grid is a card or a placeholder, told apart by a number.  *)
(***************************************************************************)
\* src/unnamed/part_001:126, the delay of the confirmation timer
CONFIRM_MS == 3000

\* src/unnamed/part_001:323, the delay of the removal fallback timer
FALLBACK_MS == 300

\* granularity of the passage of time in the gallery: half the confirmation delay
GalleryTickMs == CONFIRM_MS \div 2

\* the most placeholders shown at a time
MaxPlaceholders == 3

\* createImageCard(image, preloaded): the class of its img is gallery__image--loaded
\* when preloaded, else gallery__image--loading; reported: the resource of
\* the img has reported load or error
Card(n, id, ref, preloaded) ==
    [kind |-> "card", n |-> n, id |-> id, ref |-> ref, fading |-> FALSE,
     img |-> IF preloaded THEN "loaded" ELSE "loading", reported |-> preloaded]
Placeholder(n) ==
    [kind |-> "placeholder", n |-> n, id |-> "", ref |-> 0, fading |-> FALSE,
     img |-> "", reported |-> FALSE]

\* createElement hands out a node no one holds: not in the grid, not in the
\* placeholder list, not the card a fallback timer holds
NewNode(g) ==
    LET used == {g.children[i].n : i \in 1..Len(g.children)}
                \cup Range(g.placeholderElements)
                \cup {t.node : t \in {u \in g.domTimers : u.kind = "fallback"}}
    IN  CHOOSE n \in 1..(Cardinality(used) + 1) :
            n \notin used /\ \A m \in 1..(n - 1) : m \in used

\* setTimeout hands out an id no scheduled timer has and no map entry keeps
NewDomTimerId(g) ==
    LET used == {t.id : t \in g.domTimers}
                \cup {g.confirmationTimeouts[k] : k \in DOMAIN g.confirmationTimeouts}
    IN  CHOOSE n \in 1..(Cardinality(used) + 1) :
            n \notin used /\ \A m \in 1..(n - 1) : m \in used

\* the values of a Map
mapValues(m) == {m[k] : k \in DOMAIN m}

\* Map.prototype.set, Map.prototype.delete
mapSet(m, key, value) == (key :> value) @@ m
mapDelete(m, key) == [k \in DOMAIN m \ {key} |-> m[k]]

\* node.remove(): the grid without that node
detach(children, n) == SelectSeq(children, LAMBDA c : c.n # n)

\* image.id of a record of the store
IdOf(h, ref) == Field(h[ref], "id").s

\* resetConfirmationState that leaves the id pending
resetConfirmationState_KeepsPending(g, imageId) ==
    IF imageId \in DOMAIN g.confirmationTimeouts
    THEN [g EXCEPT !.domTimers = clearTimeout(@, g.confirmationTimeouts[imageId]),
                   !.confirmationTimeouts = mapDelete(@, imageId)]
    ELSE g

\* resetConfirmationState(imageId): not pending, its timer cleared and forgotten
resetConfirmationState(g, imageId) ==
    LET g1 == [g EXCEPT !.pendingDeletions = @ \ {imageId}]
    IN  IF imageId \in DOMAIN g.confirmationTimeouts
        THEN [g1 EXCEPT !.domTimers = clearTimeout(@, g.confirmationTimeouts[imageId]),
                        !.confirmationTimeouts = mapDelete(@, imageId)]
        ELSE g1

\* handleFirstDeletePress that does not keep its timer in the map
handleFirstDeletePress_TimerNotKept(g, imageId) ==
    [g EXCEPT !.pendingDeletions = @ \cup {imageId},
              !.domTimers = @ \cup {[id |-> NewDomTimerId(g), left |-> CONFIRM_MS,
                                     kind |-> "confirm", target |-> imageId, node |-> 0]}]

\* handleFirstDeletePress(imageId): pending, a timer of 3 seconds kept in the map
handleFirstDeletePress(g, imageId) ==
    LET timeout == NewDomTimerId(g)
    IN  [g EXCEPT !.pendingDeletions = @ \cup {imageId},
                  !.domTimers = @ \cup {[id |-> timeout, left |-> CONFIRM_MS,
                                         kind |-> "confirm", target |-> imageId, node |-> 0]},
                  !.confirmationTimeouts = mapSet(@, imageId, timeout)]

\* updateEmptyState(): hidden when the store or the placeholder list holds something
updateEmptyState(g, es) ==
    IF ~g.galleryElement THEN g
    ELSE LET hasImages == Len(es) > 0 \/ Len(g.placeholderElements) > 0
         IN  [g EXCEPT !.display = IF hasImages THEN "none" ELSE "flex"]

\* the cards of renderGallery for the records es, first to last
RECURSIVE cardsFor(_, _, _)
cardsFor(g, es, h) ==
    IF es = <<>> THEN g
    ELSE cardsFor([g EXCEPT !.children =
                       Append(@, Card(NewNode(g), IdOf(h, Head(es).r), Head(es).r, FALSE))],
                  Tail(es), h)

\* renderGallery(): the grid emptied, then one card per record of the store
renderGallery(g, es, h) ==
    IF ~g.galleryElement THEN g
    ELSE updateEmptyState(cardsFor([g EXCEPT !.children = <<>>], es, h), es)

\* prependImageCard(image, true)
prependImageCard(g, h, ref) ==
    IF ~g.galleryElement THEN g
    ELSE [g EXCEPT !.children = <<Card(NewNode(g), IdOf(h, ref), ref, TRUE)>> \o @]

\* the first card of the grid with this data-id, 0 when there is none
querySelector(g, id) ==
    LET hits == SelectSeq(g.children, LAMBDA c : c.kind = "card" /\ c.id = id)
    IN  IF hits = <<>> THEN 0 ELSE hits[1].n

\* removeImageCard that relies on transitionend alone
removeImageCard_NoFallback(g, id) ==
    IF ~g.galleryElement THEN g
    ELSE LET n == querySelector(g, id) IN
         IF n = 0 THEN g
         ELSE resetConfirmationState(
                  [g EXCEPT !.children = [i \in 1..Len(@) |->
                                            IF @[i].n = n THEN [@[i] EXCEPT !.fading = TRUE]
                                            ELSE @[i]]],
                  id)

\* removeImageCard(id): the card fades, a fallback timer is set, and the
\* confirmation state of the id is reset; nothing when the grid has no such card
removeImageCard(g, id) ==
    IF ~g.galleryElement THEN g
    ELSE LET n == querySelector(g, id) IN
         IF n = 0 THEN g
         ELSE LET g1 == [g EXCEPT
                            !.children = [i \in 1..Len(@) |->
                                            IF @[i].n = n THEN [@[i] EXCEPT !.fading = TRUE]
                                            ELSE @[i]],
                            !.domTimers = @ \cup {[id |-> NewDomTimerId(g), left |-> FALLBACK_MS,
                                                   kind |-> "fallback", target |-> "", node |-> n]}]
              IN  resetConfirmationState(g1, id)

\* removePlaceholder that takes the oldest placeholder
removePlaceholder_Oldest(g) ==
    IF g.placeholderElements = <<>> THEN g
    ELSE LET placeholder == Head(g.placeholderElements)
         IN  [g EXCEPT !.placeholderElements = Tail(@),
                       !.children = detach(@, placeholder)]

\* removePlaceholder(): pop the newest placeholder and detach it
removePlaceholder(g) ==
    IF g.placeholderElements = <<>> THEN g
    ELSE LET placeholder == g.placeholderElements[Len(g.placeholderElements)]
         IN  [g EXCEPT !.placeholderElements = SubSeq(@, 1, Len(@) - 1),
                       !.children = detach(@, placeholder)]

\* showPlaceholder(): a new node, pushed and put first in the grid
showPlaceholder(g, es) ==
    IF ~g.galleryElement THEN g
    ELSE LET n == NewNode(g)
         IN  updateEmptyState(
                 [g EXCEPT !.placeholderElements = Append(@, n),
                           !.children = <<Placeholder(n)>> \o @],
                 es)

\* removeAllPlaceholders(): every placeholder detached, the list emptied
removeAllPlaceholders(g, es) ==
    updateEmptyState(
        [g EXCEPT !.children = SelectSeq(@, LAMBDA c : c.n \notin Range(g.placeholderElements)),
                  !.placeholderElements = <<>>],
        es)

\* showImage of preloadAndShowImage: the image has loaded, or failed to
showImage(g, es, h, ref) ==
    updateEmptyState(
        prependImageCard(removePlaceholder([g EXCEPT !.loading = @ \ {ref}]), h, ref),
        es)

\* preloadAndShowImage(image): shown at once when img.complete, else on load
preloadAndShowImage(g, es, h, ref, complete) ==
    IF complete THEN showImage(g, es, h, ref)
    ELSE [g EXCEPT !.loading = @ \cup {ref}]

\* handleStateChange(action, data), with the store as it is when the
\* listener is called: es and h
handleStateChange(g, action, data, es, h, complete) ==
    CASE action = "add" -> preloadAndShowImage(g, es, h, data.r, complete)
      [] action = "remove" -> updateEmptyState(removeImageCard(g, IdOf(h, data.r)), es)
      [] action = "clear" ->
            renderGallery([g EXCEPT !.domTimers =
                                        {t \in @ : t.id \notin mapValues(g.confirmationTimeouts)},
                                    !.confirmationTimeouts = EmptyMap,
                                    !.pendingDeletions = {}],
                          es, h)
      [] OTHER -> g

\* the gallery after the store has notified its listeners with the calls cs:
\* the gallery's listener runs once for each call made to it
RECURSIVE notified(_, _, _, _, _)
notified(g, cs, es, h, complete) ==
    IF cs = <<>> THEN g
    ELSE notified(IF Head(cs).l = "handleStateChange"
                  THEN handleStateChange(g, Head(cs).action, Head(cs).data, es, h, complete)
                  ELSE g,
                  Tail(cs), es, h, complete)

(***************************************************************************)
(* The page with its gallery: the store's operations as the page calls     *)
(* them, with handleStateChange subscribed, the presses of the delete      *)
(* buttons, the gallery's timers and its placeholders.                     *)
(***************************************************************************)
\* the gallery operation that runs
GOp(name, id) == [name |-> name, id |-> id]

\* an operation of the gallery that calls no operation of the store
storeUntouched(name, id) ==
    /\ op' = [Op(name) EXCEPT !.id = id]
    /\ calls' = <<>>
    /\ before' = View
    /\ UNCHANGED <<storeVars, heap, callerVars, remoteVars, uiVars>>

\* the records handleGenerate may add: generateId() gives an id no record had
FreshInputs == {image \in Inputs : \A r \in 1..Len(heap) : heap[r].id # image.id}

\* the page loads on a store as an earlier page left it, in a browser that
\* grants the storage; initGallery is to run
InitGallery ==
    /\ Constructed({[slot |-> s, getItemThrows |-> FALSE, quotaFull |-> FALSE] :
                        s \in ListSlots})
    /\ ProxyIdle
    /\ GatewayIdle
    /\ GalleryLoaded /\ UiLoaded

\* initGallery(container, emptyState): the elements, subscribe, renderGallery
initGallery ==
    /\ ~gallery.galleryElement
    /\ subscribe("handleStateChange")
    /\ gallery' = renderGallery([gallery EXCEPT !.galleryElement = TRUE], images.es, heap)
    /\ gop' = GOp("initGallery", "")
    /\ gbefore' = gallery.placeholderElements
    /\ UNCHANGED uiVars

\* state.addImage(image) of handleGenerate; the listener preloads the image,
\* which the browser has at once (img.complete) or has not
pageAddImage(image) ==
    /\ gallery.galleryElement
    /\ addImage(image)
    /\ \E complete \in BOOLEAN :
          gallery' = notified(gallery, calls', images'.es, heap', complete)
    /\ gop' = GOp("addImage", image.id.s)
    /\ gbefore' = gallery.placeholderElements
    /\ UNCHANGED uiVars

\* img.onload / img.onerror of preloadAndShowImage
imageLoaded ==
    \E ref \in gallery.loading :
        /\ gallery' = showImage(gallery, images.es, heap, ref)
        /\ gop' = GOp("imageLoaded", IdOf(heap, ref))
        /\ gbefore' = gallery.placeholderElements
        /\ storeUntouched("imageLoaded", IdOf(heap, ref))

\* state.removeImage(id) called by other means than the delete button
pageRemoveImage(id) ==
    /\ gallery.galleryElement
    /\ removeImage(id)
    /\ gallery' = notified(gallery, calls', images'.es, heap', FALSE)
    /\ gop' = GOp("removeImage", id)
    /\ gbefore' = gallery.placeholderElements
    /\ UNCHANGED uiVars

\* state.clearAll()
pageClearAll ==
    /\ gallery.galleryElement
    /\ clearAll
    /\ gallery' = notified(gallery, calls', images'.es, heap', FALSE)
    /\ gop' = GOp("clearAll", "")
    /\ gbefore' = gallery.placeholderElements
    /\ UNCHANGED uiVars

\* the cards of the grid, those that are fading out included
Cards == {gallery.children[i] : i \in {j \in 1..Len(gallery.children) :
                                          gallery.children[j].kind = "card"}}

\* onClick of a card's delete button, the id not pending: first press
firstDeletePress ==
    \E card \in Cards :
        /\ card.id \notin gallery.pendingDeletions
        /\ gallery' = handleFirstDeletePress(gallery, card.id)
        /\ gop' = GOp("firstDeletePress", card.id)
        /\ gbefore' = gallery.placeholderElements
        /\ storeUntouched("firstDeletePress", card.id)

\* onClick of a card's delete button, the id pending: second press
secondDeletePress ==
    \E card \in Cards :
        /\ card.id \in gallery.pendingDeletions
        /\ removeImage(card.id)
        /\ gallery' = notified(resetConfirmationState(gallery, card.id),
                               calls', images'.es, heap', FALSE)
        /\ gop' = GOp("secondDeletePress", card.id)
        /\ gbefore' = gallery.placeholderElements
        /\ UNCHANGED uiVars

\* the callback handleFirstDeletePress scheduled runs, 3 seconds later
confirmationTimer ==
    \E t \in gallery.domTimers :
        /\ t.kind = "confirm"
        /\ t.left = 0
        /\ gallery' = resetConfirmationState([gallery EXCEPT !.domTimers = @ \ {t}], t.target)
        /\ gop' = GOp("confirmationTimer", t.target)
        /\ gbefore' = gallery.placeholderElements
        /\ storeUntouched("confirmationTimer", t.target)

\* the fallback callback of removeImageCard runs: if (card.parentNode) card.remove()
fallbackTimer ==
    \E t \in gallery.domTimers :
        /\ t.kind = "fallback"
        /\ t.left = 0
        /\ gallery' = [gallery EXCEPT !.domTimers = @ \ {t},
                                      !.children = detach(@, t.node)]
        /\ gop' = GOp("fallbackTimer", IF \E c \in Cards : c.n = t.node
                                        THEN IdOf(heap, (CHOOSE c \in Cards : c.n = t.node).ref)
                                        ELSE "")
        /\ gbefore' = gallery.placeholderElements
        /\ storeUntouched("fallbackTimer", "")

\* handleTransitionEnd of a card that fades out: card.remove()
transitionEnd ==
    \E card \in Cards :
        /\ card.fading
        /\ gallery' = [gallery EXCEPT !.children = detach(@, card.n)]
        /\ gop' = GOp("transitionEnd", card.id)
        /\ gbefore' = gallery.placeholderElements
        /\ storeUntouched("transitionEnd", card.id)

\* the img of a card loads: img.onload, set when the card was not preloaded
cardImageLoad ==
    \E card \in Cards :
        /\ ~card.reported
        /\ gallery' = [gallery EXCEPT !.children =
                           [i \in 1..Len(@) |->
                               IF @[i].n = card.n
                               THEN [@[i] EXCEPT !.img = "loaded", !.reported = TRUE]
                               ELSE @[i]]]
        /\ gop' = GOp("cardImageLoad", card.id)
        /\ gbefore' = gallery.placeholderElements
        /\ storeUntouched("cardImageLoad", card.id)

\* the img of a card fails to load: createImageCard sets no img.onerror
cardImageError ==
    \E card \in Cards :
        /\ ~card.reported
        /\ gallery' = [gallery EXCEPT !.children =
                           [i \in 1..Len(@) |->
                               IF @[i].n = card.n THEN [@[i] EXCEPT !.reported = TRUE]
                               ELSE @[i]]]
        /\ gop' = GOp("cardImageError", card.id)
        /\ gbefore' = gallery.placeholderElements
        /\ storeUntouched("cardImageError", card.id)

\* GalleryTickMs pass: the timers of the gallery come closer. The debounced
\* write of the store is not followed here: the gallery never reads the slot.
galleryTick ==
    /\ \E t \in gallery.domTimers : t.left > 0
    /\ gallery' = [gallery EXCEPT !.domTimers =
                       {[t EXCEPT !.left = Max(0, @ - GalleryTickMs)] : t \in @}]
    /\ gop' = GOp("tick", "")
    /\ gbefore' = gallery.placeholderElements
    /\ storeUntouched("tick", "")

\* showPlaceholder() as handleGenerate calls it, once per image asked for;
\* the page calls initGallery before it handles any event
callShowPlaceholder ==
    /\ gallery.galleryElement
    /\ Len(gallery.placeholderElements) < MaxPlaceholders
    /\ gallery' = showPlaceholder(gallery, images.es)
    /\ gop' = GOp("showPlaceholder", "")
    /\ gbefore' = gallery.placeholderElements
    /\ storeUntouched("showPlaceholder", "")

\* removePlaceholder()
callRemovePlaceholder ==
    /\ gallery.galleryElement
    /\ gallery' = removePlaceholder(gallery)
    /\ gop' = GOp("removePlaceholder", "")
    /\ gbefore' = gallery.placeholderElements
    /\ storeUntouched("removePlaceholder", "")

\* removeAllPlaceholders()
callRemoveAllPlaceholders ==
    /\ gallery.galleryElement
    /\ gallery' = removeAllPlaceholders(gallery, images.es)
    /\ gop' = GOp("removeAllPlaceholders", "")
    /\ gbefore' = gallery.placeholderElements
    /\ storeUntouched("removeAllPlaceholders", "")

\* what the store's operations and the passage of time do to the grid
gridEvents ==
    \/ \E image \in FreshInputs : pageAddImage(image)
    \/ imageLoaded
    \/ \E id \in Ids : pageRemoveImage(id)
    \/ pageClearAll
    \/ fallbackTimer
    \/ transitionEnd
    \/ galleryTick

\* the page and the delete buttons of its cards
NextGallery ==
    \/ initGallery
    \/ gridEvents
    \/ firstDeletePress
    \/ secondDeletePress
    \/ confirmationTimer
    \/ cardImageLoad
    \/ cardImageError

SpecGallery == InitGallery /\ [][NextGallery]_vars

\* the page as the store changes, every timer the gallery sets running in
\* the end; a transitionend event may never come
NextRemoval ==
    \/ initGallery
    \/ gridEvents

SpecRemoval ==
    /\ InitGallery
    /\ [][NextRemoval]_vars
    /\ WF_vars(galleryTick)
    /\ WF_vars(fallbackTimer)

\* the page and the placeholders of the images being generated
NextPlaceholders ==
    \/ initGallery
    \/ gridEvents
    \/ callShowPlaceholder
    \/ callRemovePlaceholder
    \/ callRemoveAllPlaceholders

SpecPlaceholders == InitGallery /\ [][NextPlaceholders]_vars

(***************************************************************************)
(* The input bar (src/unnamed/part_003): handleGenerate and handleEnhance  *)
(* up to their await and from it on, the toasts of showError.              *)
(***************************************************************************)
\* the most toasts on the page at a time
MaxToasts == 2

\* what getGenerationSettings() reads from the settings panel
Settings ==
    {[model |-> "z-image-turbo", image_url |-> "", image_urls |-> <<>>, num_images |-> n] :
        n \in {1, 2}}
    \cup {[model |-> "flux-kontext", image_url |-> u, image_urls |-> <<>>, num_images |-> 1] :
              u \in {"", "data:a"}}
    \cup {[model |-> "seedream-45-edit", image_url |-> "", image_urls |-> us, num_images |-> 1] :
              us \in {<<>>, <<"data:a">>}}

\* what the user types into the prompt input
Typed == {<<>>, <<Blank>>, <<"fox">>, <<Blank, "red", Blank, "fox">>}

\* the prompt enhancePrompt resolves with
Enhanced == <<"vivid", Blank, "fox">>

AppOp(name) == [name |-> name, during |-> app.generating > 0, started |-> FALSE, failed |-> FALSE]

\* setLoading(input, button, isLoading)
setLoading(a, isLoading) ==
    [a EXCEPT !.inputDisabled = isLoading, !.buttonDisabled = isLoading]

\* a handleGenerate that lets every trigger through
rapidClickGuard_Open(a) == FALSE

\* if (button.disabled) return
rapidClickGuard(a) == a.buttonDisabled

\* showError that schedules no timer
showError_NoTimer(a) ==
    [a EXCEPT !.toasts = @ \cup {CHOOSE n \in 1..(Cardinality(a.toasts) + 1) : n \notin a.toasts}]

\* showError(message): a toast in document.body and the timer of 4 seconds
showError(a) ==
    LET toast == CHOOSE n \in 1..(Cardinality(a.toasts) + 1) : n \notin a.toasts
    IN  [a EXCEPT !.toasts = @ \cup {toast},
                  !.toastTimers = @ \cup {[toast |-> toast, phase |-> "shown"]}]

\* showPlaceholder() called n times
RECURSIVE showPlaceholders(_, _, _)
showPlaceholders(g, es, n) ==
    IF n = 0 THEN g ELSE showPlaceholders(showPlaceholder(g, es), es, n - 1)

\* what handleGenerate turns away before it disables anything
missingInput(settings) ==
    \/ settings.model = "flux-kontext" /\ settings.image_url = ""
    \/ settings.model = "seedream-45-edit" /\ Len(settings.image_urls) = 0

\* the gallery and the store are as they were
galleryUntouched(name) ==
    /\ gallery' = gallery
    /\ gop' = GOp(name, "")
    /\ gbefore' = gallery.placeholderElements
    /\ op' = Op(name)
    /\ calls' = <<>>
    /\ before' = View
    /\ UNCHANGED <<storeVars, heap, callerVars, remoteVars, lightbox>>

\* handleGenerate(input, button), on a click of the button or Enter in the
\* prompt input, up to its await of generateImage
handleGenerate(settings) ==
    /\ gallery.galleryElement
    /\ IF rapidClickGuard(app) \/ trim(app.value) = <<>>
       THEN /\ app' = [app EXCEPT !.last = AppOp("handleGenerate")]
            /\ galleryUntouched("handleGenerate")
       ELSE IF missingInput(settings)
       THEN /\ Cardinality(app.toasts) < MaxToasts
            /\ app' = [showError(app) EXCEPT
                          !.last = [AppOp("handleGenerate") EXCEPT !.failed = TRUE]]
            /\ galleryUntouched("handleGenerate")
       ELSE /\ app' = [setLoading(app, TRUE) EXCEPT
                          !.generating = @ + 1,
                          !.last = [AppOp("handleGenerate") EXCEPT !.started = TRUE]]
            /\ gallery' = showPlaceholders(gallery, images.es, settings.num_images)
            /\ gop' = GOp("handleGenerate", "")
            /\ gbefore' = gallery.placeholderElements
            /\ op' = Op("handleGenerate")
            /\ calls' = <<>>
            /\ before' = View
            /\ UNCHANGED <<storeVars, heap, callerVars, remoteVars, lightbox>>

\* generateImage resolves with one image: the rest of the try block and finally
generateResolves ==
    /\ app.generating > 0
    /\ \E image \in FreshInputs, complete \in BOOLEAN :
          /\ addImage(image)
          /\ gallery' = notified(removeAllPlaceholders(gallery, images.es),
                                 calls', images'.es, heap', complete)
          /\ gop' = GOp("generateResolves", image.id.s)
    /\ gbefore' = gallery.placeholderElements
    /\ app' = [setLoading(app, FALSE) EXCEPT
                  !.value = <<>>,
                  !.generating = @ - 1,
                  !.last = AppOp("generateResolves")]
    /\ UNCHANGED lightbox

\* generateImage resolves without images: removeAllPlaceholders() and finally
generateResolvesEmpty ==
    /\ app.generating > 0
    /\ gallery' = removeAllPlaceholders(gallery, images.es)
    /\ gop' = GOp("generateResolves", "")
    /\ gbefore' = gallery.placeholderElements
    /\ app' = [setLoading(app, FALSE) EXCEPT
                  !.generating = @ - 1,
                  !.last = AppOp("generateResolves")]
    /\ op' = Op("generateResolves")
    /\ calls' = <<>>
    /\ before' = View
    /\ UNCHANGED <<storeVars, heap, callerVars, remoteVars, lightbox>>

\* generateImage rejects: the catch block and finally
generateRejects ==
    /\ app.generating > 0
    /\ Cardinality(app.toasts) < MaxToasts
    /\ gallery' = removeAllPlaceholders(gallery, images.es)
    /\ gop' = GOp("generateRejects", "")
    /\ gbefore' = gallery.placeholderElements
    /\ app' = [setLoading(showError(app), FALSE) EXCEPT
                  !.generating = @ - 1,
                  !.last = [AppOp("generateRejects") EXCEPT !.failed = TRUE]]
    /\ op' = Op("generateRejects")
    /\ calls' = <<>>
    /\ before' = View
    /\ UNCHANGED <<storeVars, heap, callerVars, remoteVars, lightbox>>

\* handleEnhance(input, button), on a click of the enhance button, which the
\* browser delivers when the button is not disabled, up to its await
handleEnhance ==
    /\ ~app.enhanceDisabled
    /\ app' = IF trim(app.value) = <<>>
              THEN [app EXCEPT !.last = AppOp("handleEnhance")]
              ELSE [app EXCEPT !.enhanceDisabled = TRUE,
                               !.inputDisabled = TRUE,
                               !.enhancing = @ + 1,
                               !.last = [AppOp("handleEnhance") EXCEPT !.started = TRUE]]
    /\ galleryUntouched("handleEnhance")

\* enhancePrompt resolves: the rest of the try block and finally
enhanceResolves ==
    /\ app.enhancing > 0
    /\ app' = [app EXCEPT !.value = Enhanced,
                          !.enhanceDisabled = FALSE,
                          !.inputDisabled = FALSE,
                          !.enhancing = @ - 1,
                          !.last = AppOp("enhanceResolves")]
    /\ galleryUntouched("enhanceResolves")

\* enhancePrompt rejects: the catch block and finally
enhanceRejects ==
    /\ app.enhancing > 0
    /\ Cardinality(app.toasts) < MaxToasts
    /\ app' = [showError(app) EXCEPT
                  !.enhanceDisabled = FALSE,
                  !.inputDisabled = FALSE,
                  !.enhancing = @ - 1,
                  !.last = [AppOp("enhanceRejects") EXCEPT !.failed = TRUE]]
    /\ galleryUntouched("enhanceRejects")

\* the user types into the prompt input, which takes input when not disabled
typePrompt ==
    /\ ~app.inputDisabled
    /\ \E text \in Typed :
          app' = [app EXCEPT !.value = text, !.last = AppOp("typePrompt")]
    /\ galleryUntouched("typePrompt")

\* the timer of 4 seconds of showError runs: fadeOut, and a timer of 300 ms
toastTimeout ==
    /\ \E t \in app.toastTimers :
          /\ t.phase = "shown"
          /\ app' = [app EXCEPT !.toastTimers = (@ \ {t}) \cup {[t EXCEPT !.phase = "fading"]},
                                !.last = AppOp("toastTimeout")]
    /\ galleryUntouched("toastTimeout")

\* the timer of 300 ms runs: toast.remove()
toastRemove ==
    /\ \E t \in app.toastTimers :
          /\ t.phase = "fading"
          /\ app' = [app EXCEPT !.toastTimers = @ \ {t},
                                !.toasts = @ \ {t.toast},
                                !.last = AppOp("toastRemove")]
    /\ galleryUntouched("toastRemove")

NextApp ==
    \/ initGallery
    \/ \E settings \in Settings : handleGenerate(settings)
    \/ generateResolves
    \/ generateResolvesEmpty
    \/ generateRejects
    \/ handleEnhance
    \/ enhanceResolves
    \/ enhanceRejects
    \/ typePrompt
    \/ toastTimeout
    \/ toastRemove
    \/ imageLoaded

SpecApp == InitGallery /\ [][NextApp]_vars

(***************************************************************************)
(* The lightbox (src/unnamed/part_001): open, close, the swipe on the      *)
(* modal content, the scroll lock and the focus.                           *)
(***************************************************************************)
\* src/unnamed/part_001:558, deltaY > 110
SWIPE_CLOSE_PX == 110

\* src/unnamed/part_001:558, velocity > 0.85, in hundredths of px/ms
SWIPE_CLOSE_VELOCITY == 85

\* window.innerHeight of the device
InnerHeight == 200

\* granularity of Date.now()
LightboxTickMs == 100

\* the most steps of the clock in a run
MaxClockTicks == 5

\* clientY of a touch
TouchYs == {50, 100, 150, 200, 250}

\* the elements that can hold the focus while the lightbox is closed
FocusTargets == {"body", "promptInput"}

LbOp(name) ==
    [name |-> name, wasActive |-> lightbox.active, closed |-> FALSE, focusAfterClose |-> "",
     swiping |-> FALSE, displacement |-> 0, elapsed |-> 0]

\* resetLightboxSwipeState()
resetLightboxSwipeState(lb) ==
    [lb EXCEPT !.swipe = [startY |-> 0, startTime |-> 0, deltaY |-> 0, isActive |-> FALSE],
               !.dragging = FALSE,
               !.transform = 0]

\* lockBodyScroll()
lockBodyScroll(lb) ==
    IF lb.isScrollLocked THEN lb
    ELSE [lb EXCEPT !.isScrollLocked = TRUE, !.bodyFixed = TRUE]

\* unlockBodyScroll()
unlockBodyScroll(lb) ==
    IF ~lb.isScrollLocked THEN lb
    ELSE [lb EXCEPT !.isScrollLocked = FALSE, !.bodyFixed = FALSE]

\* openLightbox(image): the modal exists
openLightbox(lb) ==
    LET lb1 == resetLightboxSwipeState([lb EXCEPT !.lastFocusedElement = lb.activeElement])
        lb2 == lockBodyScroll([lb1 EXCEPT !.active = TRUE])
    IN  [lb2 EXCEPT !.activeElement = "closeBtn"]

\* where the focus is once the modal is hidden and nothing else was focused:
\* the stylesheet decides whether the close button keeps it
Unfocused(lb) == IF lb.activeElement = "closeBtn" THEN {"closeBtn", "body"} ELSE {lb.activeElement}

\* element.focus(): the body takes no focus
focus(lb, el, rest) ==
    [lb EXCEPT !.activeElement = IF el = "body" THEN rest ELSE el]

\* closeLightbox that leaves the scroll locked
closeLightbox_KeepsLock(lb, rest) ==
    LET lb1 == resetLightboxSwipeState([lb EXCEPT !.active = FALSE])
    IN  IF lb1.lastFocusedElement # ""
        THEN [focus(lb1, lb1.lastFocusedElement, rest) EXCEPT !.lastFocusedElement = ""]
        ELSE [lb1 EXCEPT !.activeElement = rest]

\* closeLightbox()
closeLightbox(lb, rest) ==
    LET lb1 == unlockBodyScroll(resetLightboxSwipeState([lb EXCEPT !.active = FALSE]))
    IN  IF lb1.lastFocusedElement # ""
        THEN [focus(lb1, lb1.lastFocusedElement, rest) EXCEPT !.lastFocusedElement = ""]
        ELSE [lb1 EXCEPT !.activeElement = rest]

\* the lightbox alone moves
lightboxOnly == UNCHANGED <<pageVars, remoteVars, galleryVars, app>>

\* what a step that called closeLightbox() records of it
Closed(lb, name) ==
    [lb EXCEPT !.last = [LbOp(name) EXCEPT !.closed = TRUE,
                                           !.focusAfterClose = lb.activeElement]]

InitLightbox ==
    /\ Constructed({[slot |-> NoItem, getItemThrows |-> FALSE, quotaFull |-> FALSE]})
    /\ ProxyIdle
    /\ GatewayIdle
    /\ GalleryLoaded /\ UiLoaded

\* the focus moves on the page; the open modal keeps it
focusMoves ==
    /\ ~lightbox.active
    /\ \E el \in FocusTargets \ {lightbox.activeElement} :
          lightbox' = [lightbox EXCEPT !.activeElement = el, !.last = LbOp("focusMoves")]
    /\ lightboxOnly

\* a click on a card, which the open modal covers: openLightbox(image)
cardClick ==
    /\ ~lightbox.active
    /\ lightbox' = [openLightbox(lightbox) EXCEPT
                       !.focusAtOpen = lightbox.activeElement,
                       !.last = LbOp("openLightbox")]
    /\ lightboxOnly

\* a click on the close control or on the backdrop of the open modal
closeClick ==
    /\ lightbox.active
    /\ \E rest \in Unfocused(lightbox) :
          lightbox' = Closed(closeLightbox(lightbox, rest), "closeClick")
    /\ lightboxOnly

\* keydown of Escape on the document, the lightbox open or not
escapeKey ==
    /\ \E rest \in Unfocused(lightbox) :
          lightbox' = Closed(closeLightbox(lightbox, rest), "escapeKey")
    /\ lightboxOnly

\* a click on Remix: handleRemixImage fills the prompt, closes the lightbox
\* and focuses the prompt input
remixClick ==
    /\ lightbox.active
    /\ \E rest \in Unfocused(lightbox) :
          lightbox' = [Closed(closeLightbox(lightbox, rest), "remixClick") EXCEPT
                          !.activeElement = "promptInput"]
    /\ lightboxOnly

\* touchstart of one finger on the modal content
touchstart ==
    /\ \E y \in TouchYs :
          lightbox' =
              IF ~lightbox.active THEN [lightbox EXCEPT !.last = LbOp("touchstart")]
              ELSE [lightbox EXCEPT
                       !.swipe = [startY |-> y, startTime |-> lightbox.now,
                                  deltaY |-> 0, isActive |-> TRUE],
                       !.touchY = y,
                       !.last = LbOp("touchstart")]
    /\ lightboxOnly

\* touchmove of that finger, straight up or down
touchmove ==
    /\ \E y \in TouchYs \ {lightbox.touchY} :
          LET dy == y - lightbox.swipe.startY IN
          lightbox' =
              IF ~lightbox.active
              THEN [resetLightboxSwipeState(lightbox) EXCEPT !.last = LbOp("touchmove")]
              ELSE IF ~lightbox.swipe.isActive
              THEN [lightbox EXCEPT !.last = LbOp("touchmove")]
              ELSE IF dy <= 0
              THEN [lightbox EXCEPT !.touchY = y, !.last = LbOp("touchmove")]
              ELSE [lightbox EXCEPT
                       !.swipe.deltaY = dy,
                       !.dragging = TRUE,
                       !.transform = Min(dy, (InnerHeight * 65) \div 100),
                       !.touchY = y,
                       !.last = LbOp("touchmove")]
    /\ lightboxOnly

\* touchend or touchcancel: endSwipe
endSwipe ==
    /\ \E rest \in Unfocused(lightbox) :
       lightbox' =
          IF ~lightbox.swipe.isActive THEN [lightbox EXCEPT !.last = LbOp("endSwipe")]
          ELSE LET swipeMs == Max(lightbox.now - lightbox.swipe.startTime, 1)
                   swipeDeltaY == lightbox.swipe.deltaY
                   shouldClose == \/ swipeDeltaY > SWIPE_CLOSE_PX
                                  \/ swipeDeltaY * 100 > SWIPE_CLOSE_VELOCITY * swipeMs
                   lb1 == [lightbox EXCEPT !.swipe.isActive = FALSE,
                                           !.dragging = FALSE,
                                           !.transform = 0]
                   lb2 == IF shouldClose THEN Closed(closeLightbox(lb1, rest), "endSwipe")
                          ELSE [lb1 EXCEPT !.last = LbOp("endSwipe")]
               IN  [lb2 EXCEPT !.last.swiping = TRUE,
                               !.last.displacement = lightbox.touchY - lightbox.swipe.startY,
                               !.last.elapsed = swipeMs]
    /\ lightboxOnly

\* LightboxTickMs pass
clockTick ==
    /\ lightbox.now < MaxClockTicks * LightboxTickMs
    /\ lightbox' = [lightbox EXCEPT !.now = @ + LightboxTickMs, !.last = LbOp("clockTick")]
    /\ lightboxOnly

NextLightbox ==
    \/ focusMoves
    \/ cardClick
    \/ closeClick
    \/ escapeKey
    \/ remixClick
    \/ touchstart
    \/ touchmove
    \/ endSwipe
    \/ clockTick

SpecLightbox == InitLightbox /\ [][NextLightbox]_vars

(***************************************************************************)
(* Properties.                                                             *)
(***************************************************************************)
\* every subscribed listener was invoked exactly once, with this action and data
NotifiedOnce(action, data) ==
    /\ \A l \in active : Cardinality({i \in 1..Len(calls) : calls[i].l = l}) = 1
    /\ \A i \in 1..Len(calls) :
          /\ calls[i].l \in active
          /\ calls[i].action = action
          /\ calls[i].data = data

\* the view holds a record of this id
HasId(view, id) ==
    /\ IsArray(view)
    /\ \E i \in 1..Len(view.es) :
          view.es[i].k = "obj" /\ Field(view.es[i].f, "id") = JStr(id)

\* the text JSON.stringify gives for the empty list
EmptyListText == <<Tok("["), Tok("]")>>

\* what getImages() of a fresh State constructed over the slot returns
FreshGetImages ==
    LET v == load(storage, FALSE)
    IN  IF IsArray(v) THEN v ELSE JUndefined

\* C1: after any run of addImage calls with no removeImage or clearAll in
\* between, getImages() starts with the added records, the most recently added
\* first, and each addImage call invokes every subscribed listener exactly once
\* with action 'add' and the record just added, which is then the first record.
C1_AddOrderAndNotify ==
    /\ IsArray(images)
    /\ Len(added) <= Len(images.es)
    /\ SubSeq(images.es, 1, Len(added))
          = [i \in 1..Len(added) |-> JRef(added[Len(added) + 1 - i])]
    /\ (op.name = "addImage") =>
          /\ ~op.threw
          /\ NotifiedOnce("add", JRef(op.ref))
          /\ View.es = <<JObj(heap[op.ref])>> \o before.es

C1_Witness ==
    /\ op.name = "addImage"
    /\ Len(added) >= 2
    /\ Cardinality(active) = 2
    /\ Len(calls) = 2

\* C2: from a clearAll until the next mutation no write is scheduled, so none
\* set up by an earlier addImage or removeImage can fire; the write clearAll
\* made at once was of the empty list, and the slot holds the empty list
\* whenever the browser accepted that write.
C2_ClearAllCancelsPendingWrite ==
    sinceClear =>
        /\ timers = {}
        /\ saveTimeout = NoTimeout
        /\ wrote.text = EmptyListText
        /\ (~quotaFull => storage = Item(EmptyListText))

\* a clearAll that came while the write of an addImage was pending, some time ago
C2_Witness ==
    /\ sinceClear
    /\ op.name = "tick"
    /\ elapsed = SAVE_DEBOUNCE_MS
    /\ burst.muts = 0
    /\ storage = Item(EmptyListText)
    /\ Len(heap) = MaxObjects

\* C3: a burst of addImage/removeImage mutations, each within the debounce
\* window of the one before, makes one write: none while the window of the last
\* mutation is open, at most one timer pending at any time, and once the timer
\* has run exactly one setItem call, whose text is the list as the last
\* mutation left it.
C3_BurstMakesOneWrite ==
    /\ Cardinality(timers) <= 1
    /\ burst.writes <= 1
    /\ (burst.muts >= 1 /\ elapsed < SAVE_DEBOUNCE_MS) =>
          (burst.writes = 0 /\ timers # {})
    /\ (burst.muts >= 1 /\ timers = {}) =>
          /\ burst.writes = 1
          /\ wrote.text = JSONStringify(images, heap)
          /\ (~quotaFull => storage = Item(wrote.text))

\* two addImage calls within the window, and the one write made
C3_Witness ==
    /\ op.name = "saveTimer"
    /\ burst.muts = 2
    /\ burst.writes = 1
    /\ Len(added) = 2
    /\ storage = Item(JSONStringify(images, heap))

\* C4: once the debounce window has elapsed (no write is pending), and at once
\* after clearAll, a fresh State constructed over the slot returns from
\* getImages() the list the store returns, record by record and in order,
\* provided the last localStorage call did not throw (the list was persisted).
C4_PersistenceRoundTrip ==
    (lastIO = "ok" /\ (timers = {} \/ op.name = "clearAll")) => FreshGetImages = View

\* two records were added, the window elapsed, and the slot reloads as the list
C4_Witness ==
    /\ lastIO = "ok"
    /\ timers = {}
    /\ op.name = "saveTimer"
    /\ Len(added) = 2
    /\ Len(View.es) >= 2
    /\ FreshGetImages = View

\* C5: removeImage(id) for an id that no record has changes nothing: the list
\* keeps its records and their order, and no listener is invoked.
C5_RemoveAbsentIsNoOp ==
    (op.name = "removeImage" /\ ~HasId(before, op.id)) =>
        /\ View = before
        /\ calls = <<>>
        /\ ~op.threw

C5_Witness ==
    /\ op.name = "removeImage"
    /\ op.id = "zz"
    /\ IsArray(before)
    /\ Len(before.es) = 2
    /\ active # {}

\* C6: after clearAll() the list is empty and every subscribed listener has
\* been invoked exactly once with action 'clear', whatever the list held before,
\* also when it held nothing.
C6_ClearAllEmptiesAndNotifies ==
    (op.name = "clearAll") =>
        /\ ~op.threw
        /\ View = EmptyArray
        /\ NotifiedOnce("clear", JNull)

\* a clearAll of a list that was already empty, with two listeners subscribed
C6_Witness ==
    /\ op.name = "clearAll"
    /\ before = EmptyArray
    /\ Cardinality(active) = 2
    /\ Len(calls) = 2

\* C7: nothing a caller does to what getImages() returned (reorder it, remove
\* from it, add to it, change a field of a record reached through it) changes
\* what getImages() returns afterwards.
C7_GetImagesIsDefensiveCopy ==
    (op.name \in {"callerReverse", "callerShift", "callerPush", "callerSetField"}) =>
        View = before

\* C8: every notification invokes exactly the listeners that are subscribed and
\* not since unsubscribed, each once, in the order of their registration.
C8_ListenersInRegistrationOrder ==
    (/\ op.name \in {"addImage", "removeImage", "clearAll"}
     /\ (op.name = "removeImage" => op.ref # 0)) =>
        /\ Len(calls) = Cardinality(active)
        /\ {calls[i].l : i \in 1..Len(calls)} = active
        /\ \A i, j \in 1..Len(calls) :
              i < j => <<calls[i].l, calls[j].l>> \in regBefore

\* one listener was unsubscribed and subscribed again, so it now comes second
C8_Witness ==
    /\ op.name = "removeImage"
    /\ op.ref # 0
    /\ Len(calls) = 2
    /\ calls[1].l = "otherListener"
    /\ calls[2].l = "handleStateChange"

\* C9: a State constructed over a missing or corrupt slot starts with the empty
\* list, and none of its operations fails afterwards.
C9_CorruptSlotGivesEmptyList ==
    /\ (op.name = "constructor") => images = EmptyArray
    /\ ~op.threw

\* C10: when localStorage refuses the write, the operation still completes:
\* nothing is thrown, the list in memory is the mutated one and the listeners
\* have been notified exactly once.
C10_WriteFailureIsAbsorbed ==
    quotaFull =>
        /\ ~op.threw
        /\ (op.name = "addImage") =>
              (View.es = <<JObj(heap[op.ref])>> \o before.es
               /\ NotifiedOnce("add", JRef(op.ref)))
        /\ (op.name = "removeImage" /\ op.ref # 0) =>
              (Len(View.es) = Len(before.es) - 1
               /\ NotifiedOnce("remove", JRef(op.ref)))
        /\ (op.name = "clearAll") =>
              (~wrote.ok /\ View = EmptyArray /\ NotifiedOnce("clear", JNull))
        /\ (op.name = "saveTimer") =>
              (~wrote.ok /\ View = before /\ saveTimeout = NoTimeout)

\* the write of clearAll was refused, with two listeners and a list to clear
C10_Witness ==
    /\ quotaFull
    /\ op.name = "clearAll"
    /\ ~wrote.ok
    /\ before # EmptyArray
    /\ Cardinality(active) = 2

\* C11: in every reachable state of the store no two records of the list have
\* the same id, whatever addImage, removeImage and clearAll calls were made.
C11_IdsAreUnique ==
    IsArray(images) =>
        \A i, j \in 1..Len(images.es) :
            (i # j /\ ElemId(images.es[i], heap).k = "str") =>
                ElemId(images.es[i], heap) # ElemId(images.es[j], heap)

(***************************************************************************)
(* Properties of the generate handler.                                     *)
(***************************************************************************)
\* the model the request selects, the default when it names none
ModelOf(r) == Default(r.body, "model", W("z-image-turbo"))

\* the tests every branch shares have passed: method, prompt, num_images, credential
GatesPass(r) ==
    /\ r.method = "POST"
    /\ Truthy(Field(r.body, "prompt")) /\ IsString(Field(r.body, "prompt"))
    /\ numImagesOk(Default(r.body, "num_images", JNum(1)))
    /\ r.FAL_KEY

\* the non-empty image references of a request, as supplied: the entries of
\* image_urls, then image_url
References(r) ==
    LET image_urls == Field(r.body, "image_urls")
        image_url == Field(r.body, "image_url")
    IN  (IF IsArray(image_urls)
         THEN SelectSeq(image_urls.es, LAMBDA url : NonEmptyString(url))
         ELSE <<>>)
        \o (IF NonEmptyString(image_url) THEN <<image_url>> ELSE <<>>)

\* the invocation has run past its synchronous part
Ran == hpc \in {"awaiting", "returned", "threw"}

\* the payload of the one call made
Payload == fetches[1].payload

\* C12: for every model that requires input images (flux-kontext,
\* seedream-45-edit, nano-banana-pro-edit, wan-26-image-to-image) a request
\* with no non-empty image reference, neither image_url nor an entry of
\* image_urls, is answered with an error and no upstream call is made.
C12_NoImageNoUpstreamCall ==
    (/\ Ran
     /\ GatesPass(req)
     /\ ModelOf(req) \in {W("flux-kontext"), W("seedream-45-edit"),
                          W("nano-banana-pro-edit"), W("wan-26-image-to-image")}
     /\ References(req) = <<>>) =>
        /\ fetches = <<>>
        /\ hpc = "returned"
        /\ res.status >= 400

\* the fallback format of a model that supports jpeg and png only
FallbackFormat ==
    (W("qwen-image") :> W("png")) @@ (W("flux-kontext") :> W("jpeg"))
    @@ (W("hidream-i1-fast") :> W("jpeg")) @@ (W("hunyuan-image") :> W("png"))
    @@ (W("flux-dev") :> W("jpeg")) @@ (W("flux-kontext-lora-t2i") :> W("png"))
    @@ (W("piflow") :> W("jpeg"))

\* C13: for every model that supports jpeg and png only, a request whose
\* output_format is another one reaches the upstream API with the model's
\* fallback format (png or jpeg), never with the format it asked for.
C13_UnsupportedFormatFallsBack ==
    (/\ fetches # <<>>
     /\ ModelOf(req) \in DOMAIN FallbackFormat
     /\ Field(req.body, "output_format") \notin {JUndefined, W("jpeg"), W("png")}) =>
        Field(Payload, "output_format") = FallbackFormat[ModelOf(req)]

\* the step count each model defaults to, and the property that carries it
DefaultSteps ==
    (W("hidream-i1-fast") :> 50) @@ (W("flux-dev") :> 50) @@ (W("fibo") :> 50)
    @@ (W("hunyuan-image") :> 28) @@ (W("flux-kontext-lora-t2i") :> 30)
    @@ (W("piflow") :> 8)

StepsProperty(model) == IF model = W("fibo") THEN "steps_num" ELSE "num_inference_steps"

\* C14: when the request omits num_inference_steps the payload carries the
\* model's own default: 50 for hidream-i1-fast and flux-dev (steps_num 50 for
\* fibo), 28 for hunyuan-image, 30 for flux-kontext-lora-t2i, 8 for piflow.
C14_OmittedStepsGetModelDefault ==
    (/\ fetches # <<>>
     /\ ModelOf(req) \in DOMAIN DefaultSteps
     /\ "num_inference_steps" \notin DOMAIN req.body) =>
        Field(Payload, StepsProperty(ModelOf(req))) = JNum(DefaultSteps[ModelOf(req)])

\* the most references a model takes; 0 when it sets no limit
MaxReferences ==
    (W("seedream-45-edit") :> 10) @@ (W("nano-banana-pro-edit") :> 0)
    @@ (W("wan-26-image-to-image") :> 3)

\* s is t cut down to n elements from either end, each compared trimmed
IsTruncation(s, t, n) ==
    LET trimmed(q) == [i \in 1..Len(q) |-> trim(q[i].s)]
    IN  /\ Len(s) = (IF n = 0 THEN Len(t) ELSE Min(Len(t), n))
        /\ \/ trimmed(s) = trimmed(SubSeq(t, 1, Len(s)))
           \/ trimmed(s) = trimmed(SubSeq(t, Len(t) - Len(s) + 1, Len(t)))

\* C15: for the models that take a list of input images (seedream-45-edit,
\* nano-banana-pro-edit, wan-26-image-to-image) any combination of image_url
\* and image_urls that holds a reference is forwarded as one image_urls list
\* of the supplied non-empty references in their order, cut down to the
\* model's maximum (10, 3) by truncation, and never together with image_url.
C15_ReferencesForwardedAsOneList ==
    (/\ hpc \in {"awaiting", "returned"}
     /\ GatesPass(req)
     /\ ModelOf(req) \in DOMAIN MaxReferences
     /\ References(req) # <<>>) =>
        /\ Len(fetches) = 1
        /\ "image_url" \notin DOMAIN Payload
        /\ IsArray(Field(Payload, "image_urls"))
        /\ IsTruncation(Field(Payload, "image_urls").es, References(req),
                        MaxReferences[ModelOf(req)])

\* the input test of the model's branch passes
ModelInputOk(r) ==
    CASE ModelOf(r) = W("flux-kontext") -> Truthy(Default(r.body, "image_url", JNull))
      [] ModelOf(r) \in {W("seedream-45-edit"), W("nano-banana-pro-edit")} ->
            Len(References(r)) >= 1
      [] ModelOf(r) = W("wan-26-image-to-image") ->
            Len(References(r)) >= 1 /\ Len(References(r)) <= 3
      [] OTHER -> TRUE

\* C16: an invocation makes at most one upstream call: exactly one when the
\* method, prompt, num_images, credential and model input tests all pass,
\* none otherwise; an upstream answer that is not 2xx is relayed with its
\* status and its text, and a missing credential is answered with a message
\* of its own, unlike that of an upstream or transport error.
C16_AtMostOneUpstreamCall ==
    /\ Len(fetches) <= 1
    /\ Ran => (Len(fetches) = 1 <=> (GatesPass(req) /\ ModelInputOk(req)))
    /\ (hpc = "returned" /\ fetches # <<>> /\ settled.status # 0 /\ ~settled.ok) =>
          (res.status = settled.status /\ res.details = settled.text)
    /\ (hpc = "returned" /\ fetches = <<>> /\ res.status = 500) =>
          (/\ ~req.FAL_KEY
           /\ res.error = "FAL_KEY environment variable is not configured"
           /\ res.error \notin {"Failed to generate image", "Internal server error"})
    /\ (hpc = "returned" /\ fetches # <<>>) =>
          res.error # "FAL_KEY environment variable is not configured"

(***************************************************************************)
(* Properties of the gateway.                                              *)
(***************************************************************************)
\* an empty, whitespace-only or non-string prompt
BlankOrNoString(prompt) == ~IsString(prompt) \/ \A i \in 1..Len(prompt.s) : prompt.s[i] = Blank

\* C17: generateImage and enhancePrompt reject an empty, whitespace-only or
\* non-string prompt by throwing before any request is issued; for every other
\* prompt each issues exactly one HTTP POST, whatever the answer.
C17_BlankPromptThrowsBeforeAnyRequest ==
    (gpc \in {"awaiting", "returned", "threw"}) =>
        IF BlankOrNoString(call.prompt)
        THEN gpc = "threw" /\ posts = <<>>
        ELSE /\ Len(posts) = 1
             /\ posts[1].method = "POST"
             /\ posts[1].url = (IF call.fn = "generateImage"
                                THEN API_ENDPOINT ELSE ENHANCE_ENDPOINT)

\* enhancePrompt threw for a prompt of two blanks, and nothing was sent
C17_Witness ==
    /\ call.fn = "enhancePrompt"
    /\ call.prompt = JStr(<<Blank, Blank>>)
    /\ gpc = "threw"
    /\ result.message = "Prompt cannot be empty"
    /\ posts = <<>>

(***************************************************************************)
(* Properties of the gallery.                                              *)
(***************************************************************************)
\* the confirmation timers scheduled and not yet run, for this id
ConfirmTimers(id) == {t \in gallery.domTimers : t.kind = "confirm" /\ t.target = id}

\* C18: a first press of the delete button on an id that is not pending makes
\* the id pending, with a timer of 3 seconds, and leaves the store as it was; a
\* second press while the id is pending removes the image of that id from the
\* store and the id is no longer pending; the timer, when it runs, returns the
\* id to not pending and leaves the store as it was; and every pending id has
\* its timer scheduled, so that one of the two ends the pending state.
C18_DeleteNeedsSecondPress ==
    /\ gop.name = "firstDeletePress" =>
          /\ gop.id \in gallery.pendingDeletions
          /\ \E t \in ConfirmTimers(gop.id) :
                /\ t.left = CONFIRM_MS
                /\ gallery.confirmationTimeouts[gop.id] = t.id
          /\ View = before
    /\ gop.name = "secondDeletePress" =>
          /\ ~HasId(View, gop.id)
          /\ gop.id \notin gallery.pendingDeletions
          /\ ConfirmTimers(gop.id) = {}
    /\ gop.name = "confirmationTimer" =>
          /\ gop.id \notin gallery.pendingDeletions
          /\ ConfirmTimers(gop.id) = {}
          /\ View = before
    /\ \A id \in gallery.pendingDeletions :
          /\ id \in DOMAIN gallery.confirmationTimeouts
          /\ \E t \in ConfirmTimers(id) : t.id = gallery.confirmationTimeouts[id]

\* the second press on the card of an image the store held, another image left
C18_Witness ==
    /\ gop.name = "secondDeletePress"
    /\ HasId(before, gop.id)
    /\ ~HasId(View, gop.id)
    /\ Len(View.es) = 1

\* C19: an id whose image is not in the store is not pending and has no
\* confirmation timer scheduled.
C19_RemovedIdIsNotPending ==
    \A id \in Ids :
        ~HasId(View, id) => (id \notin gallery.pendingDeletions /\ ConfirmTimers(id) = {})

\* the nodes of the grid that are placeholders
PlaceholderNodes ==
    {gallery.children[i].n : i \in {j \in 1..Len(gallery.children) :
                                       gallery.children[j].kind = "placeholder"}}

\* C20: after removeAllPlaceholders(), however many placeholders were shown,
\* the grid holds no placeholder node, the placeholder list is empty, and the
\* empty-state element is visible exactly when the store holds no image; and
\* removePlaceholder(), called by the page or when an image has loaded, takes
\* the placeholder pushed last off the list and out of the grid.
C20_PlaceholderStack ==
    /\ gop.name = "removeAllPlaceholders" =>
          /\ PlaceholderNodes = {}
          /\ gallery.placeholderElements = <<>>
          /\ (gallery.display = "flex") <=> (Len(View.es) = 0)
    /\ (gop.name \in {"removePlaceholder", "imageLoaded"} /\ gbefore # <<>>) =>
          /\ gallery.placeholderElements = SubSeq(gbefore, 1, Len(gbefore) - 1)
          /\ gbefore[Len(gbefore)] \notin PlaceholderNodes

\* removeAllPlaceholders() after as many placeholders as the page shows, the
\* store empty
C20_Witness ==
    /\ gop.name = "removeAllPlaceholders"
    /\ Len(gbefore) = MaxPlaceholders
    /\ gallery.display = "flex"

\* C21: after the gallery has handled an add, remove or clear notification of
\* the store, and after showPlaceholder(), removePlaceholder() and
\* removeAllPlaceholders(), the empty-state element is visible exactly when
\* the store holds no image and the placeholder list is empty.
C21_EmptyStateIffNothingToShow ==
    gop.name \in {"addImage", "removeImage", "clearAll", "showPlaceholder",
                  "removePlaceholder", "removeAllPlaceholders"} =>
        ((gallery.display = "flex")
            <=> (Len(View.es) = 0 /\ gallery.placeholderElements = <<>>))

\* the ids a confirmation timer is scheduled for
TimerIds == {t.target : t \in {u \in gallery.domTimers : u.kind = "confirm"}}

\* C25: no id has two confirmation timers scheduled, the ids with a timer
\* scheduled are the pending ids, and a press of delete on a pending id leaves
\* the id not pending, without a timer, and its image out of the store.
C25_OneTimerPerPendingId ==
    /\ \A id \in TimerIds : Cardinality(ConfirmTimers(id)) = 1
    /\ TimerIds = gallery.pendingDeletions
    /\ DOMAIN gallery.confirmationTimeouts = gallery.pendingDeletions
    /\ gop.name = "secondDeletePress" =>
          /\ gop.id \notin TimerIds
          /\ gop.id \notin gallery.pendingDeletions
          /\ ~HasId(View, gop.id)

\* the second press on one card while another id is still pending
C25_Witness ==
    /\ gop.name = "secondDeletePress"
    /\ HasId(before, gop.id)
    /\ Cardinality(gallery.pendingDeletions) = 1
    /\ Cardinality(gallery.domTimers) >= 2

\* the ids of the cards of the grid, first to last
CardIds ==
    LET cards == SelectSeq(gallery.children, LAMBDA c : c.kind = "card")
    IN  [i \in 1..Len(cards) |-> cards[i].id]

\* the ids of the records getImages() returns, first to last
StoreIds == [i \in 1..Len(View.es) |-> Field(View.es[i].f, "id").s]

\* C26: when no preload is pending and no card is fading out, the cards of the
\* grid carry the ids of the records of the store, in the order of the store.
C26_GridMatchesStore ==
    (/\ gallery.galleryElement
     /\ gallery.loading = {}
     /\ \A c \in Cards : ~c.fading)
        => CardIds = StoreIds

\* C27: a card whose image resource has reported load or error shows its
\* image as loaded, whether the card was prepended after an add notification
\* or created by renderGallery.
C27_ReportedImageIsLoaded ==
    \A card \in Cards : card.reported => card.img = "loaded"

\* the numbers a node of the grid may carry
NodeNumbers == 1..(2 * MaxObjects + MaxPlaceholders)

\* the card of this number is in the grid, fading out
FadingInGrid(n) == \E c \in Cards : c.n = n /\ c.fading

\* the cards of a grid that do not fade out, first to last
Staying(children) == SelectSeq(children, LAMBDA c : c.kind = "card" /\ ~c.fading)

\* C28: a card that fades out after a 'remove' notification is detached from
\* the grid in the end, whether or not transitionend fires; and the fallback
\* timer and the transitionend handler touch no card that is not fading out:
\* with the card already detached the fallback timer leaves the grid as it is.
C28_RemovedCardIsDetached ==
    /\ \A n \in NodeNumbers : FadingInGrid(n) ~> ~FadingInGrid(n)
    /\ [][gop'.name \in {"fallbackTimer", "transitionEnd"} =>
            /\ Staying(gallery'.children) = Staying(gallery.children)
            /\ (gop' = GOp("fallbackTimer", "") =>
                    gallery'.children = gallery.children)]_vars

\* the fallback timer has detached the card a 'remove' notification left fading
C28_Witness ==
    /\ gop.name = "fallbackTimer"
    /\ gop.id # ""
    /\ ~HasId(View, gop.id)
    /\ \A c \in Cards : c.id # gop.id

(***************************************************************************)
(* Properties of the input bar.                                            *)
(***************************************************************************)
\* C22: at most one handleGenerate call awaits its response, and a trigger
\* that comes while one awaits starts no request and shows no placeholder.
C22_OneGenerationInFlight ==
    /\ app.generating <= 1
    /\ (gop.name = "handleGenerate" /\ app.last.during) =>
          /\ ~app.last.started
          /\ gallery.placeholderElements = gbefore

\* Enter in the prompt input, enabled again by an enhancement that ended
\* while the generation awaits, with a prompt in it
C22_Witness ==
    /\ gop.name = "handleGenerate"
    /\ app.last.during
    /\ ~app.inputDisabled
    /\ trim(app.value) # <<>>
    /\ app.generating = 1

\* C23: when generateImage has rejected and handleGenerate is through, the
\* prompt input and the generate button are enabled, no placeholder is left
\* in the list or in the grid, the store is as it was, and a toast is in the
\* page; and every toast in the page has the one timer that takes it away.
C23_FailureLeavesPageUsable ==
    /\ gop.name = "generateRejects" =>
          /\ ~app.inputDisabled
          /\ ~app.buttonDisabled
          /\ gallery.placeholderElements = <<>>
          /\ PlaceholderNodes = {}
          /\ View = before
          /\ \E t \in app.toastTimers : t.phase = "shown" /\ t.toast \in app.toasts
    /\ \A toast \in app.toasts :
          Cardinality({t \in app.toastTimers : t.toast = toast}) = 1
    /\ \A t \in app.toastTimers : t.toast \in app.toasts

\* a generation for two images has failed: both placeholders are gone
C23_Witness ==
    /\ gop.name = "generateRejects"
    /\ Len(gbefore) = 2
    /\ gallery.placeholderElements = <<>>
    /\ app.toasts # {}

\* C30: while a handleGenerate call awaits, the prompt input and the generate
\* button are disabled; while a handleEnhance call awaits, the prompt input
\* is disabled.
C30_ControlsDisabledWhileInFlight ==
    /\ app.generating > 0 => (app.inputDisabled /\ app.buttonDisabled)
    /\ app.enhancing > 0 => app.inputDisabled

(***************************************************************************)
(* Properties of the lightbox.                                             *)
(***************************************************************************)
\* C24: when a swipe on the open lightbox ends, the lightbox closes exactly
\* when the finger is more than 110 px below where it started, or its
\* displacement divided by the time elapsed is more than 0.85 px/ms; when it
\* stays open the offset of the content is zero.
C24_SwipeClosesAboveThresholds ==
    (lightbox.last.name = "endSwipe" /\ lightbox.last.swiping) =>
        /\ lightbox.last.closed
              <=> \/ lightbox.last.displacement > SWIPE_CLOSE_PX
                  \/ lightbox.last.displacement * 100
                        > SWIPE_CLOSE_VELOCITY * lightbox.last.elapsed
        /\ ~lightbox.last.closed => (lightbox.active /\ lightbox.transform = 0)

\* C29: the scroll of the page is locked exactly while the lightbox is open;
\* and when closeLightbox() has closed an open lightbox the swipe state is
\* reset, the content has no offset, and the focus is on the element that
\* had it when the lightbox was opened, if one had it.
C29_LockedIffOpenAndCloseRestores ==
    /\ lightbox.isScrollLocked <=> lightbox.active
    /\ lightbox.bodyFixed <=> lightbox.active
    /\ (lightbox.last.closed /\ lightbox.last.wasActive) =>
          /\ ~lightbox.active
          /\ lightbox.swipe = [startY |-> 0, startTime |-> 0, deltaY |-> 0, isActive |-> FALSE]
          /\ lightbox.transform = 0
          /\ ~lightbox.dragging
          /\ lightbox.focusAtOpen # "body"
                => lightbox.last.focusAfterClose = lightbox.focusAtOpen

\* a swipe has closed the lightbox opened from the prompt input
C29_Witness ==
    /\ lightbox.last.name = "endSwipe"
    /\ lightbox.last.closed
    /\ lightbox.last.wasActive
    /\ lightbox.focusAtOpen = "promptInput"
    /\ lightbox.activeElement = "promptInput"
    /\ ~lightbox.isScrollLocked

====
